---- MODULE Spec2Model ----
(***************************************************************************)
(* Funding Signal & Cycle Accounting Engine (FundingArbitrageStrategy).    *)
(*                                                                         *)
(* Units.  Funding rates are integers in units of 1e-6 (0.00015 = 150).    *)
(* Instants are integer minutes since 00:00 UTC of day 0; the clock        *)
(* arithmetic of the code only reads the hour and the minute of an         *)
(* instant, and compares instants.  Confidence is in units of 1e-4.        *)
(* expected_profit_bps is in units of 1e-2 bps (so rate * 10000 bps is the *)
(* rate itself).                                                           *)
(***************************************************************************)
EXTENDS Integers, Sequences, FiniteSets, TLC

VARIABLES
    now,        \* the wall clock, datetime.now(timezone.utc)
    config,     \* the configuration read at construction
    history,    \* self.history: symbol -> window of rates
    positions,  \* self.positions: symbol -> position record
    last,       \* the most recent call on the engine and what it returned
    bot,        \* the polling loop of main.py: its cycle counter and the locals of the tick in progress
    trades_file \* the rows of data/trades_executed.csv below the header

vars == <<now, config, history, positions, last, bot, trades_file>>

(***************************************************************************)
(* Bounds of the model.                                                    *)
(***************************************************************************)
MaxHours == 34      \* the clock functions are applied to instants of the first MaxHours hours
MaxSamples == 6     \* samples recorded per symbol in a run
MaxLedgerSamples == 2   \* samples recorded per symbol in a run of the ledger specification

(***************************************************************************)
(* Program constants.                                                      *)
(***************************************************************************)
max_history == 20
estimated_slippage_bps == 1
taker_fee_bps == 2
funding_hours == <<0, 8, 16>>

None == "None"

Abs(x) == IF x < 0 THEN -x ELSE x

Min2(a, b) == IF a < b THEN a ELSE b

Max2(a, b) == IF a > b THEN a ELSE b

(***************************************************************************)
(* datetime: the fields of an instant and datetime.replace.                *)
(***************************************************************************)
HourOf(t) == (t \div 60) % 24

MinuteOf(t) == t % 60

DayStart(t) == (t \div 1440) * 1440

\* t.replace(hour=h, minute=0, second=0, microsecond=0)
ReplaceHour(t, h) == DayStart(t) + h * 60

\* t.replace(minute=0, second=0, microsecond=0)
TruncHour(t) == (t \div 60) * 60

\* hh:mm UTC of day 0
HM(h, m) == h * 60 + m

(***************************************************************************)
(* _calculate_break_even_rate: (total_cost_bps / 2) / 10000, in 1e-6.      *)
(* total_cost_bps / 2 bps = total_cost_bps * 100 / 2 units of 1e-6.        *)
(***************************************************************************)
_calculate_break_even_rate == ((estimated_slippage_bps + taker_fee_bps * 2) * 100) \div 2

break_even_rate == _calculate_break_even_rate

(***************************************************************************)
(* _next_funding_time: the scan of funding_hours, then tomorrow 00:00.     *)
(***************************************************************************)
RECURSIVE NextFundingScan(_, _)
NextFundingScan(t, i) ==
    IF i > Len(funding_hours)
    THEN ReplaceHour(t + 1440, 0)
    ELSE IF HourOf(t) < funding_hours[i]
            \/ (HourOf(t) = funding_hours[i] /\ MinuteOf(t) < 5)
         THEN ReplaceHour(t, funding_hours[i])
         ELSE NextFundingScan(t, i + 1)

\* a scan that forgets the day rollover after 16:05
NextFundingSameDay(t) ==
    IF HourOf(NextFundingScan(t, 1)) = 0 /\ ~(HourOf(t) = 0 /\ MinuteOf(t) < 5)
    THEN ReplaceHour(t, 0)
    ELSE NextFundingScan(t, 1)

_next_funding_time(t) == NextFundingScan(t, 1)

\* _time_to_next_funding: (next_funding - now_utc) in minutes
_time_to_next_funding(t) == _next_funding_time(t) - t

(***************************************************************************)
(* _count_funding_cycles: the hour-by-hour walk from the entry hour.       *)
(***************************************************************************)
IsFundingHour(h) == \E i \in 1..Len(funding_hours) : funding_hours[i] = h

RECURSIVE CountWalk(_, _, _, _)
CountWalk(current, entry, exit, cycles) ==
    IF ~(current < exit)
    THEN cycles
    ELSE CountWalk(current + 60, entry, exit,
                   IF IsFundingHour(HourOf(current))
                      /\ entry < current /\ exit > current
                   THEN cycles + 1 ELSE cycles)

\* a walk that also counts a boundary equal to the entry instant
RECURSIVE CountWalkInclusive(_, _, _, _)
CountWalkInclusive(current, entry, exit, cycles) ==
    IF ~(current < exit)
    THEN cycles
    ELSE CountWalkInclusive(current + 60, entry, exit,
                   IF IsFundingHour(HourOf(current))
                      /\ entry <= current /\ exit > current
                   THEN cycles + 1 ELSE cycles)

CountCyclesInclusive(entry_time, exit_time) ==
    CountWalkInclusive(TruncHour(entry_time), entry_time, exit_time, 0)

\* a count that only looks at the funding hours of the exit's day
CountCyclesOfExitDay(entry_time, exit_time) ==
    Cardinality({i \in 1..Len(funding_hours) :
                    /\ entry_time < ReplaceHour(exit_time, funding_hours[i])
                    /\ ReplaceHour(exit_time, funding_hours[i]) < exit_time})

_count_funding_cycles(entry_time, exit_time) ==
    CountWalk(TruncHour(entry_time), entry_time, exit_time, 0)

(***************************************************************************)
(* Configuration (config.get(..., default)); thresholds are given in       *)
(* percent and divided by 100: 0.015 / 100 = 150e-6, 0.005 / 100 = 50e-6.  *)
(***************************************************************************)
default_extreme_threshold == 150
default_min_threshold == 50
default_max_positions == 3
default_max_position_size == 100
default_leverage == 5

AllSymbols == {"S1", "S2", "S3", "S4"}

DefaultConfig ==
    [symbols |-> AllSymbols,
     extreme_threshold |-> default_extreme_threshold,
     min_threshold |-> default_min_threshold,
     max_positions |-> default_max_positions,
     max_position_size |-> default_max_position_size,
     leverage |-> default_leverage]

(***************************************************************************)
(* Market data handed to update: a missing reply is None / {} (falsy).     *)
(***************************************************************************)
NoData == [present |-> FALSE]

FundingData(rate, mark) == [present |-> TRUE, fundingRate |-> rate, markPrice |-> mark]

TickerData(price) == [present |-> TRUE, last |-> price]

\* Malformed replies: non-empty dicts (truthy) that lack a key.
FundingWithoutRate(mark) == [present |-> TRUE, markPrice |-> mark]

FundingWithoutMark(rate) == [present |-> TRUE, fundingRate |-> rate]

TickerWithoutLast == [present |-> TRUE]

\* An exception leaving the call instead of a return value.
Raised(exception) == [action |-> "raise", exception |-> exception]

(***************************************************************************)
(* History tracker.                                                        *)
(***************************************************************************)
\* Variant of _update_history that evicts one sample early (>= for >).
UpdateHistoryEvictEarly(hist, rate) ==
    LET appended == Append(hist, rate)
    IN  IF Len(appended) >= max_history THEN Tail(appended) ELSE appended

\* _update_history: append, then pop(0) when the window exceeds max_history
_update_history(hist, rate) ==
    LET appended == Append(hist, rate)
    IN  IF Len(appended) > max_history THEN Tail(appended) ELSE appended

RECURSIVE SumSeq(_)
SumSeq(s) == IF s = <<>> THEN 0 ELSE Head(s) + SumSeq(Tail(s))

RECURSIVE SumSqSeq(_)
SumSqSeq(s) == IF s = <<>> THEN 0 ELSE Head(s) * Head(s) + SumSqSeq(Tail(s))

\* min(hist) and max(hist) of a non-empty window
MinSeq(s) == CHOOSE x \in {s[i] : i \in DOMAIN s} : \A i \in DOMAIN s : x <= s[i]

MaxSeq(s) == CHOOSE x \in {s[i] : i \in DOMAIN s} : \A i \in DOMAIN s : x >= s[i]

\* Variant of _calculate_stats that guards the empty window only (< 1 for < 2).
CalculateStatsGuardEmpty(hist) ==
    IF Len(hist) < 1
    THEN [mean_num |-> 0, mean_den |-> 1, var_num |-> 0, var_den |-> 1,
          min |-> 0, max |-> 0]
    ELSE LET n == Len(hist)
             sum == SumSeq(hist)
         IN  [mean_num |-> sum, mean_den |-> n,
              var_num |-> n * SumSqSeq(hist) - sum * sum,
              var_den |-> n * (n - 1),
              min |-> MinSeq(hist), max |-> MaxSeq(hist)]

\* _calculate_stats.  The mean and the variance (std squared) are kept as exact
\* fractions: mean = mean_num / mean_den, std^2 = var_num / var_den, with
\* statistics.stdev the sample standard deviation (n - 1 in the denominator).
_calculate_stats(hist) ==
    IF Len(hist) < 2
    THEN [mean_num |-> 0, mean_den |-> 1, var_num |-> 0, var_den |-> 1,
          min |-> 0, max |-> 0]
    ELSE LET n == Len(hist)
             sum == SumSeq(hist)
         IN  [mean_num |-> sum, mean_den |-> n,
              var_num |-> n * SumSqSeq(hist) - sum * sum,
              var_den |-> n * (n - 1),
              min |-> MinSeq(hist), max |-> MaxSeq(hist)]

\* self.history.get(symbol, []): the window of a symbol, empty when unknown
WindowOf(symbol) ==
    IF symbol \in DOMAIN history THEN history[symbol] ELSE <<>>

\* Variant of the statistics call that consumes the oldest sample it reads.
CalculateStatsDraining(symbol) ==
    /\ last' = [op |-> "_calculate_stats", symbol |-> symbol,
                result |-> _calculate_stats(WindowOf(symbol))]
    /\ history' = [s \in DOMAIN history |->
                       IF s = symbol /\ history[s] # <<>>
                       THEN Tail(history[s]) ELSE history[s]]
    /\ UNCHANGED <<bot, trades_file, now, config, positions>>

\* _calculate_stats(symbol) called on the engine
CalculateStats(symbol) ==
    /\ last' = [op |-> "_calculate_stats", symbol |-> symbol,
                result |-> _calculate_stats(WindowOf(symbol))]
    /\ UNCHANGED <<bot, trades_file, now, config, history, positions>>

\* stats['std'] > abs(rate) * 0.5, both sides non-negative, squared:
\* var_num / var_den > rate^2 / 4
StdExceedsHalfRate(stats, rate) ==
    4 * stats.var_num > rate * rate * stats.var_den

\* the stability filter with the multiplier 0.8 of an earlier iteration
IsStablePoint8(stats, rate) ==
    10 * Abs(rate) * stats.mean_den >= 8 * Abs(stats.mean_num)

\* abs(rate) >= abs(stats['mean']) * 0.7
IsStable(stats, rate) ==
    10 * Abs(rate) * stats.mean_den >= 7 * Abs(stats.mean_num)

(***************************************************************************)
(* Signals.  None is the signal record whose action is "None".             *)
(***************************************************************************)
NoSignal == [action |-> None]

OpenActions == {"open_long", "open_short"}

\* Variant of _calculate_confidence without the upper clamp min(..., 1.0).
CalculateConfidenceUnclamped(rate) ==
    Max2(6000, (Abs(rate) * 20000) \div (3 * config.extreme_threshold))

\* _calculate_confidence: max(0.6, min(|rate| / (extreme_threshold * 1.5), 1.0)),
\* in units of 1e-4 (the quotient rounded down to that unit).
_calculate_confidence(rate) ==
    Max2(6000, Min2((Abs(rate) * 20000) \div (3 * config.extreme_threshold), 10000))

EntrySignal(symbol, rate, mark, stats) ==
    IF rate > config.extreme_threshold /\ IsStable(stats, rate)
    THEN [timestamp |-> [t |-> now, tzinfo |-> None],
          symbol |-> symbol, funding_rate |-> rate, mark_price |-> mark,
          action |-> "open_short",
          confidence |-> _calculate_confidence(rate),
          expected_profit_bps |-> rate,
          reason |-> "SHORT",
          next_funding_time |-> _next_funding_time(now),
          cycles_captured |-> 0]
    ELSE IF rate < -config.extreme_threshold /\ IsStable(stats, rate)
    THEN [timestamp |-> [t |-> now, tzinfo |-> None],
          symbol |-> symbol, funding_rate |-> rate, mark_price |-> mark,
          action |-> "open_long",
          confidence |-> _calculate_confidence(rate),
          expected_profit_bps |-> Abs(rate),
          reason |-> "LONG",
          next_funding_time |-> _next_funding_time(now),
          cycles_captured |-> 0]
    ELSE NoSignal

\* an entry evaluation without the break-even filter
EvaluateEntryNoBreakEven(symbol, rate, mark, stats) ==
    EntrySignal(symbol, rate, mark, stats)

_evaluate_entry(symbol, rate, mark, stats) ==
    IF Abs(rate) < break_even_rate
    THEN NoSignal
    ELSE EntrySignal(symbol, rate, mark, stats)

CloseSignal(symbol, rate, mark, conf, profit, why, cycles) ==
    [timestamp |-> [t |-> now, tzinfo |-> "UTC"],
     symbol |-> symbol, funding_rate |-> rate, mark_price |-> mark,
     action |-> "close",
     confidence |-> conf,
     expected_profit_bps |-> profit,
     reason |-> why,
     next_funding_time |-> _next_funding_time(now),
     cycles_captured |-> cycles]

\* abs(rate) < self.break_even_rate * 0.5
BelowHalfBreakEven(rate) == 2 * Abs(rate) < break_even_rate

\* an exit evaluation whose reversal rule is not gated on a captured cycle
EvaluateExitUngatedReversal(symbol, rate, mark, stats) ==
    LET position == positions[symbol]
        side == position.side
        cycles == _count_funding_cycles(position.entry_time, now)
    IN  IF cycles >= 1 /\ Abs(rate) < config.min_threshold
        THEN CloseSignal(symbol, rate, mark, 9000, 0, "normalized", cycles)
        ELSE IF (side = "short" /\ rate < 0) \/ (side = "long" /\ rate > 0)
        THEN CloseSignal(symbol, rate, mark, 10000, 0, "reversal", cycles)
        ELSE IF cycles = 0 /\ BelowHalfBreakEven(rate)
        THEN CloseSignal(symbol, rate, mark, 5000, -break_even_rate, "stop", 0)
        ELSE NoSignal

\* an exit evaluation that tests the reversal rule before the normalization
EvaluateExitReversalFirst(symbol, rate, mark, stats) ==
    LET position == positions[symbol]
        side == position.side
        cycles == _count_funding_cycles(position.entry_time, now)
    IN  IF cycles >= 1
           /\ ((side = "short" /\ rate < 0) \/ (side = "long" /\ rate > 0))
        THEN CloseSignal(symbol, rate, mark, 10000, 0, "reversal", cycles)
        ELSE IF cycles >= 1 /\ Abs(rate) < config.min_threshold
        THEN CloseSignal(symbol, rate, mark, 9000, 0, "normalized", cycles)
        ELSE IF cycles = 0 /\ BelowHalfBreakEven(rate)
        THEN CloseSignal(symbol, rate, mark, 5000, -break_even_rate, "stop", 0)
        ELSE NoSignal

_evaluate_exit(symbol, rate, mark, stats) ==
    LET position == positions[symbol]
        side == position.side
        cycles == _count_funding_cycles(position.entry_time, now)
    IN  IF cycles >= 1 /\ Abs(rate) < config.min_threshold
        THEN CloseSignal(symbol, rate, mark, 9000, 0, "normalized", cycles)
        ELSE IF cycles >= 1
                /\ ((side = "short" /\ rate < 0) \/ (side = "long" /\ rate > 0))
        THEN CloseSignal(symbol, rate, mark, 10000, 0, "reversal", cycles)
        ELSE IF cycles = 0 /\ BelowHalfBreakEven(rate)
        THEN CloseSignal(symbol, rate, mark, 5000, -break_even_rate, "stop", 0)
        ELSE NoSignal

\* a cap check that lets one position too many through (> for >=)
EvaluateSignalCapOffByOne(symbol, rate, mark, stats) ==
    LET has_position == symbol \in DOMAIN positions
    IN  IF ~has_position
        THEN IF Cardinality(DOMAIN positions) > config.max_positions
             THEN NoSignal
             ELSE _evaluate_entry(symbol, rate, mark, stats)
        ELSE _evaluate_exit(symbol, rate, mark, stats)

\* a dispatch whose cap check comes first, for every symbol
EvaluateSignalCapFirst(symbol, rate, mark, stats) ==
    IF Cardinality(DOMAIN positions) >= config.max_positions
    THEN NoSignal
    ELSE IF symbol \notin DOMAIN positions
    THEN _evaluate_entry(symbol, rate, mark, stats)
    ELSE _evaluate_exit(symbol, rate, mark, stats)

\* a dispatch that never looks at the ledger entry of the symbol
EvaluateSignalIgnoresLedger(symbol, rate, mark, stats) ==
    IF Cardinality(DOMAIN positions) >= config.max_positions
    THEN NoSignal
    ELSE _evaluate_entry(symbol, rate, mark, stats)

_evaluate_signal(symbol, rate, mark, stats) ==
    LET has_position == symbol \in DOMAIN positions
    IN  IF ~has_position
        THEN IF Cardinality(DOMAIN positions) >= config.max_positions
             THEN NoSignal
             ELSE _evaluate_entry(symbol, rate, mark, stats)
        ELSE _evaluate_exit(symbol, rate, mark, stats)

\* The part of update after the history has been updated (hist is the window
\* with the new rate recorded): statistics, volatility filter, evaluation.
UpdateDecision(symbol, funding_data, hist) ==
    LET stats == _calculate_stats(hist)
        rate == funding_data.fundingRate
    IN  IF Len(hist) > 5 /\ StdExceedsHalfRate(stats, rate)
        THEN NoSignal
        ELSE IF "markPrice" \notin DOMAIN funding_data
        THEN Raised("KeyError")
        ELSE _evaluate_signal(symbol, rate, funding_data.markPrice, stats)

\* What is recorded of a call of update.
UpdateCall(symbol, funding_data, ticker_data, result) ==
    [op |-> "update", symbol |-> symbol, funding |-> funding_data,
     ticker |-> ticker_data, at |-> now, result |-> result]

\* Variant of update that drops the position itself when it decides to close.
UpdateAutoClear(symbol, funding_data, ticker_data) ==
    IF ~funding_data.present \/ ~ticker_data.present \/ symbol \notin config.symbols
    THEN /\ last' = UpdateCall(symbol, funding_data, ticker_data, NoSignal)
         /\ UNCHANGED <<bot, trades_file, now, config, history, positions>>
    ELSE LET hist == _update_history(history[symbol], funding_data.fundingRate)
             result == UpdateDecision(symbol, funding_data, hist)
         IN  /\ history' = [history EXCEPT ![symbol] = hist]
             /\ last' = UpdateCall(symbol, funding_data, ticker_data, result)
             /\ positions' = IF result.action = "close"
                             THEN [s \in DOMAIN positions \ {symbol} |-> positions[s]]
                             ELSE positions
             /\ UNCHANGED <<bot, trades_file, now, config>>

\* Variant of update whose windows are one shared list: the sample is
\* recorded in the window of every symbol.
UpdateSharedWindow(symbol, funding_data, ticker_data) ==
    IF ~funding_data.present \/ ~ticker_data.present \/ symbol \notin config.symbols
    THEN /\ last' = UpdateCall(symbol, funding_data, ticker_data, NoSignal)
         /\ UNCHANGED <<bot, trades_file, now, config, history, positions>>
    ELSE LET hist == _update_history(history[symbol], funding_data.fundingRate)
         IN  /\ history' = [s \in DOMAIN history |-> hist]
             /\ last' = UpdateCall(symbol, funding_data, ticker_data,
                                   UpdateDecision(symbol, funding_data, hist))
             /\ UNCHANGED <<bot, trades_file, now, config, positions>>

\* Variant of update that records no sample for a symbol that has a position.
UpdateSkipsHeldSymbols(symbol, funding_data, ticker_data) ==
    IF ~funding_data.present \/ ~ticker_data.present \/ symbol \notin config.symbols
    THEN /\ last' = UpdateCall(symbol, funding_data, ticker_data, NoSignal)
         /\ UNCHANGED <<bot, trades_file, now, config, history, positions>>
    ELSE LET hist == IF symbol \in DOMAIN positions
                     THEN history[symbol]
                     ELSE _update_history(history[symbol], funding_data.fundingRate)
         IN  /\ history' = [history EXCEPT ![symbol] = hist]
             /\ last' = UpdateCall(symbol, funding_data, ticker_data,
                                   UpdateDecision(symbol, funding_data, hist))
             /\ UNCHANGED <<bot, trades_file, now, config, positions>>

\* Variant of update without the test symbol not in self.symbols.
UpdateAnySymbol(symbol, funding_data, ticker_data) ==
    IF ~funding_data.present \/ ~ticker_data.present
    THEN /\ last' = UpdateCall(symbol, funding_data, ticker_data, NoSignal)
         /\ UNCHANGED <<bot, trades_file, now, config, history, positions>>
    ELSE IF "fundingRate" \notin DOMAIN funding_data
    THEN /\ history' = [s \in DOMAIN history \cup {symbol} |->
                            IF s \in DOMAIN history THEN history[s] ELSE <<>>]
         /\ last' = UpdateCall(symbol, funding_data, ticker_data, Raised("KeyError"))
         /\ UNCHANGED <<bot, trades_file, now, config, positions>>
    ELSE LET window == IF symbol \in DOMAIN history THEN history[symbol] ELSE <<>>
             hist == _update_history(window, funding_data.fundingRate)
         IN  /\ history' = [s \in DOMAIN history \cup {symbol} |->
                               IF s = symbol THEN hist ELSE history[s]]
             /\ last' = UpdateCall(symbol, funding_data, ticker_data,
                                   UpdateDecision(symbol, funding_data, hist))
             /\ UNCHANGED <<bot, trades_file, now, config, positions>>

(***************************************************************************)
(* update(symbol, funding_data, ticker_data)                               *)
(***************************************************************************)
Update(symbol, funding_data, ticker_data) ==
    IF ~funding_data.present \/ ~ticker_data.present
    THEN /\ last' = UpdateCall(symbol, funding_data, ticker_data, NoSignal)
         /\ UNCHANGED <<bot, trades_file, now, config, history, positions>>
    ELSE IF symbol \notin config.symbols
    THEN /\ last' = UpdateCall(symbol, funding_data, ticker_data, NoSignal)
         /\ UNCHANGED <<bot, trades_file, now, config, history, positions>>
    ELSE IF "fundingRate" \notin DOMAIN funding_data
    THEN /\ history' = [s \in DOMAIN history \cup {symbol} |->
                            IF s \in DOMAIN history THEN history[s] ELSE <<>>]
         /\ last' = UpdateCall(symbol, funding_data, ticker_data, Raised("KeyError"))
         /\ UNCHANGED <<bot, trades_file, now, config, positions>>
    ELSE LET window == IF symbol \in DOMAIN history THEN history[symbol] ELSE <<>>
             hist == _update_history(window, funding_data.fundingRate)
         IN  /\ history' = [s \in DOMAIN history \cup {symbol} |->
                               IF s = symbol THEN hist ELSE history[s]]
             /\ last' = UpdateCall(symbol, funding_data, ticker_data,
                                   UpdateDecision(symbol, funding_data, hist))
             /\ UNCHANGED <<bot, trades_file, now, config, positions>>

(***************************************************************************)
(* Position sizing.  Amounts are in cents, confidence in units of 1e-4:    *)
(* available * 0.8 * leverage * confidence, in cents, is the fraction      *)
(* (available * leverage * confidence) / SizeUnit with 0.8 / 10000 =       *)
(* 1 / 12500.                                                              *)
(***************************************************************************)
SizeUnit == 12500

\* the literal 15.0 of calculate_size, in cents
MinNotional == 1500

\* round(x, 2) of x = n / d cents: the nearest cent; a decimal tie is decided
\* by the binary value of the float, which lies on either side of it
RoundOutcomes(n, d) ==
    LET q == n \div d
        r == n % d
    IN  IF 2 * r < d THEN {q}
        ELSE IF 2 * r > d THEN {q + 1}
        ELSE {q, q + 1}

\* limit_size = max_position_size * leverage
limit_size == config.max_position_size * config.leverage * 100

\* Variant of calculate_size without the minimum-notional test.
CalculateSizeNoFloor(confidence, available_usdt) ==
    LET n == available_usdt * config.leverage * confidence
    IN  IF n >= limit_size * SizeUnit
        THEN {limit_size}
        ELSE RoundOutcomes(n, SizeUnit)

\* Variant of calculate_size without the min() against limit_size.
CalculateSizeNoCap(confidence, available_usdt) ==
    LET n == available_usdt * config.leverage * confidence
    IN  IF n < MinNotional * SizeUnit THEN {0} ELSE RoundOutcomes(n, SizeUnit)

\* calculate_size: the set of values the call can return, given the product
\* n = available_usdt * leverage * confidence (cents times 1e-4).  When the
\* product is exactly 15.0 the float product can fall just below it, and 0.0
\* results.
SizeOfProduct(n) ==
    LET capped == n >= limit_size * SizeUnit
    IN  IF capped
        THEN IF limit_size >= MinNotional THEN {limit_size} ELSE {0}
        ELSE IF n < MinNotional * SizeUnit
        THEN {0}
        ELSE RoundOutcomes(n, SizeUnit)
                 \cup (IF n = MinNotional * SizeUnit THEN {0} ELSE {})

\* calculate_size(confidence, available_usdt), the capital in cents
calculate_size(confidence, available_usdt) ==
    SizeOfProduct(available_usdt * config.leverage * confidence)

CalculateSize(confidence, available_usdt) ==
    /\ \E size \in calculate_size(confidence, available_usdt) :
           last' = [op |-> "calculate_size", confidence |-> confidence,
                    available_usdt |-> available_usdt, result |-> size]
    /\ UNCHANGED <<bot, trades_file, now, config, history, positions>>

(***************************************************************************)
(* Position ledger.                                                        *)
(***************************************************************************)
\* str.lower on the side names callers pass
Lower(s) ==
    CASE s = "SHORT" -> "short"
      [] s = "LONG" -> "long"
      [] OTHER -> s

\* What is recorded of a call of register_position: its arguments, and whether
\* the symbol had a position when it was called.
RegisterCall(symbol, side, entry_rate, size_usd, entry_price) ==
    [op |-> "register_position", symbol |-> symbol, at |-> now,
     side |-> side, entry_rate |-> entry_rate, size_usd |-> size_usd,
     entry_price |-> entry_price, replaced |-> symbol \in DOMAIN positions]

\* Variant of register_position that keeps the entry a symbol already has
\* (dict.setdefault for the item assignment).
RegisterPositionKeepFirst(symbol, side, entry_rate, size_usd, entry_price) ==
    /\ positions' = [s \in DOMAIN positions \cup {symbol} |->
                        IF s = symbol /\ s \notin DOMAIN positions
                        THEN [side |-> Lower(side),
                              entry_rate |-> entry_rate,
                              entry_price |-> entry_price,
                              entry_time |-> now,
                              size_usd |-> size_usd]
                        ELSE positions[s]]
    /\ last' = RegisterCall(symbol, side, entry_rate, size_usd, entry_price)
    /\ UNCHANGED <<bot, trades_file, now, config, history>>

RegisterPosition(symbol, side, entry_rate, size_usd, entry_price) ==
    /\ positions' = [s \in DOMAIN positions \cup {symbol} |->
                        IF s = symbol
                        THEN [side |-> Lower(side),
                              entry_rate |-> entry_rate,
                              entry_price |-> entry_price,
                              entry_time |-> now,
                              size_usd |-> size_usd]
                        ELSE positions[s]]
    /\ last' = RegisterCall(symbol, side, entry_rate, size_usd, entry_price)
    /\ UNCHANGED <<bot, trades_file, now, config, history>>

\* The clock advances to a later instant t.
Tick(t) ==
    /\ t > now
    /\ now' = t
    /\ UNCHANGED <<bot, trades_file, config, history, positions, last>>

\* Variant of clear_position that empties the ledger (dict.clear for del).
ClearPositionAll(symbol) ==
    /\ positions' = IF symbol \in DOMAIN positions
                    THEN [s \in {} |-> positions[s]]
                    ELSE positions
    /\ last' = [op |-> "clear_position", symbol |-> symbol, at |-> now]
    /\ UNCHANGED <<bot, trades_file, now, config, history>>

ClearPosition(symbol) ==
    /\ positions' = IF symbol \in DOMAIN positions
                    THEN [s \in DOMAIN positions \ {symbol} |-> positions[s]]
                    ELSE positions
    /\ last' = [op |-> "clear_position", symbol |-> symbol, at |-> now]
    /\ UNCHANGED <<bot, trades_file, now, config, history>>

\* {} : the empty dict
EmptyDict == [s \in {} |-> 0]

\* round(hours, 1) of a duration given in minutes, in tenths of an hour (a tie
\* rounds up here; Python rounds the binary value of the quotient)
RoundTenthsOfHour(minutes) == (minutes * 10 + 30) \div 60

\* strftime('%H:%M UTC')
StrfHourMinute(t) == <<HourOf(t), MinuteOf(t)>>

\* Variant of get_positions_for_dashboard whose result is keyed by the side of
\* the position instead of its symbol.
PositionsForDashboardBySide ==
    [side \in {positions[s].side : s \in DOMAIN positions} |->
        LET symbol == CHOOSE s \in DOMAIN positions : positions[s].side = side
        IN  [side |-> positions[symbol].side,
             size_usd |-> positions[symbol].size_usd,
             entry_rate |-> positions[symbol].entry_rate,
             hold_hours |-> RoundTenthsOfHour(now - positions[symbol].entry_time),
             cycles_captured |-> _count_funding_cycles(positions[symbol].entry_time, now),
             next_funding |-> StrfHourMinute(_next_funding_time(now))]]

\* get_positions_for_dashboard: hold_hours in tenths of an hour
get_positions_for_dashboard ==
    [symbol \in DOMAIN positions |->
        [side |-> positions[symbol].side,
         size_usd |-> positions[symbol].size_usd,
         entry_rate |-> positions[symbol].entry_rate,
         hold_hours |-> RoundTenthsOfHour(now - positions[symbol].entry_time),
         cycles_captured |-> _count_funding_cycles(positions[symbol].entry_time, now),
         next_funding |-> StrfHourMinute(_next_funding_time(now))]]

\* get_position_metrics: hold_hours * 60, in minutes
get_position_metrics(symbol) ==
    IF symbol \notin DOMAIN positions
    THEN EmptyDict
    ELSE [entry_time |-> positions[symbol].entry_time,
          hold_minutes |-> now - positions[symbol].entry_time,
          cycles_captured |-> _count_funding_cycles(positions[symbol].entry_time, now),
          next_funding_time |-> _next_funding_time(now)]

GetPositionsForDashboard ==
    /\ last' = [op |-> "get_positions_for_dashboard", at |-> now,
                result |-> get_positions_for_dashboard]
    /\ UNCHANGED <<bot, trades_file, now, config, history, positions>>

GetPositionMetrics(symbol) ==
    /\ last' = [op |-> "get_position_metrics", symbol |-> symbol, at |-> now,
                result |-> get_position_metrics(symbol)]
    /\ UNCHANGED <<bot, trades_file, now, config, history, positions>>

get_position_count == Cardinality(DOMAIN positions)

get_active_positions == DOMAIN positions

(***************************************************************************)
(* Initial state: the engine after construction.                           *)
(***************************************************************************)
EmptyLedger == EmptyDict

\* ArgenFundingBot.__init__: running is False, cycle_count is 0 and run has not
\* been called.
NotStarted ==
    [cycle_count |-> 0, cursor |-> 0, available_usdt |-> 0,
     running |-> FALSE, loop |-> "not started"]

\* run between two ticks: the locals of _execute_cycle_multi do not exist
\* (cursor 0, no capital figure)
Idle(cycles) ==
    [cycle_count |-> cycles, cursor |-> 0, available_usdt |-> 0,
     running |-> TRUE, loop |-> "looping"]

Constructed(cfg, t) ==
    /\ now = t
    /\ config = cfg
    /\ history = [s \in cfg.symbols |-> <<>>]
    /\ positions = EmptyLedger
    /\ last = [op |-> "__init__"]
    /\ bot = NotStarted
    /\ trades_file = <<>>

(***************************************************************************)
(* Funding boundaries, stated independently of the code: 00:00, 08:00 and  *)
(* 16:00 UTC of every day.                                                 *)
(***************************************************************************)
Boundaries == {d * 1440 + h * 60 : d \in 0..((MaxHours \div 24) + 2), h \in {0, 8, 16}}

IsBoundary(t) == HourOf(t) \in {0, 8, 16} /\ MinuteOf(t) = 0

FirstBoundaryAfter(t) ==
    CHOOSE b \in Boundaries : b > t /\ \A c \in Boundaries : c > t => b <= c

\* the first five minutes of a boundary hour
InGrace(t) == HourOf(t) \in {0, 8, 16} /\ MinuteOf(t) < 5

(***************************************************************************)
(* Inputs of the engine's operations.                                      *)
(***************************************************************************)
Prices == {100}

Sizes == {50}

Sides == {"short", "long"}

\* the instant of construction: 06:25 UTC of day 0
StartTime == HM(6, 25)

(***************************************************************************)
(* Spec: the ledger under update / register_position / clear_position for  *)
(* every configured symbol, in any order.                                  *)
(***************************************************************************)
Init == Constructed(DefaultConfig, StartTime)

LedgerUpdate ==
    \E s \in AllSymbols, p \in Prices :
        /\ Len(history[s]) < MaxLedgerSamples
        /\ Update(s, FundingData(300, p), TickerData(p))

LedgerRegister ==
    \E s \in AllSymbols, side \in Sides, p \in Prices, z \in Sizes :
        RegisterPosition(s, side, 300, z, p)

LedgerClear == \E s \in AllSymbols : ClearPosition(s)

Next == LedgerUpdate \/ LedgerRegister \/ LedgerClear

Spec == Init /\ [][Next]_vars

\* C1: while the ledger holds max_positions positions (or more), update
\* returns no open_long / open_short signal for a symbol that is not in the
\* ledger.  (Every call that changes the ledger replaces last, so the ledger
\* of a state whose last call is an update is the ledger that update saw.)
C1_PositionCap ==
    (/\ last.op = "update"
     /\ get_position_count >= config.max_positions
     /\ last.symbol \notin DOMAIN positions)
    => last.result.action \notin OpenActions

\* C1 witness: the ledger is exactly full and update, for a symbol without a
\* position, on its first sample and a rate that passes every entry filter,
\* returned None.
C1_Witness ==
    /\ last.op = "update"
    /\ get_position_count = config.max_positions
    /\ last.symbol \notin DOMAIN positions
    /\ last.funding.present /\ last.ticker.present
    /\ last.funding.fundingRate = 300
    /\ history[last.symbol] = <<300>>
    /\ last.result.action = None

\* C2: the number of positions in the ledger never exceeds max_positions.
C2_CountWithinCap == get_position_count <= config.max_positions

(***************************************************************************)
(* SpecEntry: the entry evaluation of one symbol over every window of up   *)
(* to MaxSamples rates, under two configurations and a ledger that can be  *)
(* below or at the cap.                                                    *)
(***************************************************************************)
EntryRates == {-300, 200, 300, 500}

EntryConfigs ==
    {DefaultConfig,
     [DefaultConfig EXCEPT !.extreme_threshold = 400, !.max_positions = 1]}

InitEntry == \E cfg \in EntryConfigs : Constructed(cfg, StartTime)

EntryUpdate ==
    \E r \in EntryRates, p \in Prices :
        /\ Len(history["S1"]) < MaxSamples
        /\ Update("S1", FundingData(r, p), TickerData(p))

EntryRegister ==
    \E s \in {"S1", "S2"}, p \in Prices, z \in Sizes :
        RegisterPosition(s, "short", 300, z, p)

EntryClear == \E s \in {"S1", "S2"} : ClearPosition(s)

NextEntry == EntryUpdate \/ EntryRegister \/ EntryClear

SpecEntry == InitEntry /\ [][NextEntry]_vars

\* the rate and the window seen by the update that last is a record of (no
\* call other than update changes a window)
LastRate == last.funding.fundingRate

LastWindow == history[last.symbol]

\* the statistics of a window as the claims state them: zero below 2 samples
RefSum(w) == IF Len(w) < 2 THEN 0 ELSE SumSeq(w)

\* std_dev(w) > |rate| * 0.5 (squared, times n (n - 1))
RefStdAboveHalf(w, rate) ==
    /\ Len(w) >= 2
    /\ 4 * (Len(w) * SumSqSeq(w) - SumSeq(w) * SumSeq(w))
           > rate * rate * Len(w) * (Len(w) - 1)

RefVolatilityPasses(w, rate) == ~(Len(w) > 5 /\ RefStdAboveHalf(w, rate))

\* |rate| >= |mean| * 0.7 (times 10 n)
RefStable(w, rate) ==
    10 * Abs(rate) * (IF Len(w) < 2 THEN 1 ELSE Len(w)) >= 7 * Abs(RefSum(w))

\* C3: an update with |rate| < break_even_rate never returns open_long or
\* open_short, whatever the window and the ledger are.
C3_EntryGating ==
    (/\ last.op = "update"
     /\ last.funding.present
     /\ Abs(LastRate) < break_even_rate)
    => last.result.action \notin OpenActions

\* C3 witness: a rate above the entry threshold and below break-even, for a
\* symbol without position, a ledger below the cap and a stable window that
\* the volatility filter accepts: update returned None.
C3_Witness ==
    /\ last.op = "update"
    /\ last.funding.present /\ last.ticker.present
    /\ LastRate > config.extreme_threshold
    /\ Abs(LastRate) < break_even_rate
    /\ last.symbol \notin DOMAIN positions
    /\ get_position_count < config.max_positions
    /\ Len(LastWindow) > 1
    /\ RefVolatilityPasses(LastWindow, LastRate)
    /\ RefStable(LastWindow, LastRate)
    /\ last.result.action = None

\* C6: for a configured symbol without position and a ledger below the cap,
\* update returns open_short iff the volatility filter passes, |rate| >=
\* break_even_rate, |rate| >= |mean| * 0.7 and rate > entry_threshold; returns
\* open_long iff the same holds with rate < -entry_threshold; and returns no
\* signal otherwise.  The window is the one that holds the new rate.
C6_EntryDecision ==
    (/\ last.op = "update"
     /\ last.funding.present /\ last.ticker.present
     /\ last.symbol \in config.symbols
     /\ last.symbol \notin DOMAIN positions
     /\ get_position_count < config.max_positions)
    => LET common == /\ RefVolatilityPasses(LastWindow, LastRate)
                     /\ Abs(LastRate) >= break_even_rate
                     /\ RefStable(LastWindow, LastRate)
           short == common /\ LastRate > config.extreme_threshold
           long == common /\ LastRate < -config.extreme_threshold
       IN  /\ last.result.action \in {"open_short", "open_long", None}
           /\ (last.result.action = "open_short" <=> short)
           /\ (last.result.action = "open_long" <=> long)
           /\ (last.result.action = None <=> (~short /\ ~long))

\* C6 witness: open_short returned on a window of more than 5 samples that
\* are not all equal, so that every filter was evaluated.
C6_Witness ==
    /\ last.op = "update"
    /\ last.symbol \notin DOMAIN positions
    /\ get_position_count < config.max_positions
    /\ Len(LastWindow) > 5
    /\ RefStdAboveHalf(LastWindow, 100)
    /\ last.result.action = "open_short"

(***************************************************************************)
(* SpecExit: the exit evaluation of one symbol whose position is opened at *)
(* any of the clock readings, on either side, over every window of up to   *)
(* MaxSamples rates.                                                       *)
(***************************************************************************)
ExitRates == {-100, -10, 10, 300}

\* 06:25, 08:00 (a boundary) and 09:30 UTC of day 0
ExitClock == {HM(6, 25), HM(8, 0), HM(9, 30)}

InitExit == Constructed(DefaultConfig, StartTime)

ExitUpdate ==
    \E r \in ExitRates, p \in Prices :
        /\ Len(history["S1"]) < MaxSamples
        /\ Update("S1", FundingData(r, p), TickerData(p))

ExitRegister ==
    \E side \in Sides, p \in Prices, z \in Sizes :
        RegisterPosition("S1", side, 300, z, p)

ExitClear == ClearPosition("S1")

ExitTick == \E t \in ExitClock : Tick(t)

NextExit == ExitUpdate \/ ExitRegister \/ ExitClear \/ ExitTick

SpecExit == InitExit /\ [][NextExit]_vars

\* the number of boundaries strictly between two instants, as C7 states it
RefCycles(entry_time, exit_time) ==
    Cardinality({b \in Boundaries : entry_time < b /\ b < exit_time})

\* the last call is an update, with data, for a configured symbol that has a
\* position (the ledger is the one that update saw)
LastIsExitEvaluation ==
    /\ last.op = "update"
    /\ last.funding.present /\ last.ticker.present
    /\ last.symbol \in config.symbols
    /\ last.symbol \in DOMAIN positions

\* the cycles the position of that symbol had captured when update ran
LastCycles == RefCycles(positions[last.symbol].entry_time, last.at)

LastSide == positions[last.symbol].side

\* C4: while the position has captured 0 cycles, update returns either no
\* signal or the stop-loss close (confidence 0.5, cycles_captured 0), never
\* the normalization close (0.9) or the reversal close (1.0).
C4_ExitOrdering ==
    (LastIsExitEvaluation /\ LastCycles = 0)
    => \/ last.result.action = None
       \/ /\ last.result.action = "close"
          /\ last.result.confidence = 5000
          /\ last.result.cycles_captured = 0
          /\ last.result.reason = "stop"

\* C4 witness: a short position entered at 06:25 and evaluated at 08:00 sharp
\* (the boundary is touched, not crossed), with a negative rate against the
\* side and below the exit threshold: the close returned is the stop-loss.
C4_Witness ==
    /\ LastIsExitEvaluation /\ LastCycles = 0
    /\ positions[last.symbol].entry_time = HM(6, 25) /\ last.at = HM(8, 0)
    /\ LastSide = "short" /\ LastRate = -10
    /\ last.result.action = "close" /\ last.result.confidence = 5000

\* C5: for a symbol that has a position, update returns close exactly when
\* rules 1-3 say so from (cycles, rate, side) alone, whatever the window.
C5_ExitDecision ==
    LastIsExitEvaluation
    => LET against == \/ (LastSide = "short" /\ LastRate < 0)
                      \/ (LastSide = "long" /\ LastRate > 0)
           normalized == LastCycles >= 1 /\ Abs(LastRate) < config.min_threshold
           reversal == LastCycles >= 1 /\ against
           stop == LastCycles = 0 /\ 2 * Abs(LastRate) < break_even_rate
       IN  /\ last.result.action \in {"close", None}
           /\ (last.result.action = "close" <=> (normalized \/ reversal \/ stop))

\* What does hold of the exit decision: C5 for the windows that the
\* volatility filter of update accepts, and None for those it rejects.
ExitDecisionBehindFilter ==
    LastIsExitEvaluation
    => IF RefVolatilityPasses(LastWindow, LastRate)
       THEN C5_ExitDecision
       ELSE last.result.action = None

(***************************************************************************)
(* SpecHold: a position of one symbol held while the clock advances over   *)
(* two days, and observed by the exit evaluation, the positions snapshot   *)
(* and the position metrics.                                               *)
(***************************************************************************)
HoldClock ==
    {HM(6, 25), HM(8, 0), HM(9, 30), HM(17, 0), HM(23, 55), HM(24, 5), HM(32, 30)}

InitHold == Constructed(DefaultConfig, StartTime)

HoldUpdate ==
    \E p \in Prices :
        /\ Len(history["S1"]) < MaxSamples
        /\ Update("S1", FundingData(10, p), TickerData(p))

HoldRegister ==
    \E side \in Sides, p \in Prices, z \in Sizes :
        RegisterPosition("S1", side, 300, z, p)

HoldClear == ClearPosition("S1")

HoldTick == \E t \in HoldClock : Tick(t)

HoldSnapshot == GetPositionsForDashboard

HoldMetrics == GetPositionMetrics("S1")

NextHold ==
    \/ HoldUpdate \/ HoldRegister \/ HoldClear \/ HoldTick
    \/ HoldSnapshot \/ HoldMetrics

SpecHold == InitHold /\ [][NextHold]_vars

\* the calls that report cycles_captured of open positions, the symbols they
\* report it for, and the value reported
IsObservation(l) ==
    \/ l.op = "get_positions_for_dashboard"
    \/ l.op = "get_position_metrics"
    \/ (l.op = "update" /\ l.result.action = "close")

ReportedSymbols(l) ==
    IF l.op = "get_positions_for_dashboard" THEN DOMAIN l.result
    ELSE IF l.op = "get_position_metrics"
    THEN (IF l.result = EmptyDict THEN {} ELSE {l.symbol})
    ELSE {l.symbol}

Reported(l, s) ==
    IF l.op = "get_positions_for_dashboard" THEN l.result[s].cycles_captured
    ELSE l.result.cycles_captured

\* C8: every cycles_captured reported for an open position is >= 0, and from
\* one observation to the next one of the same position (no call that
\* registers or clears a position lies between two consecutive observations:
\* it would be the last call) the value does not decrease.
C8_CyclesMonotone ==
    /\ [](IsObservation(last)
            => \A s \in ReportedSymbols(last) : Reported(last, s) >= 0)
    /\ [][(IsObservation(last) /\ IsObservation(last'))
            => \A s \in ReportedSymbols(last) \cap ReportedSymbols(last') :
                   Reported(last', s) >= Reported(last, s)]_vars

\* C8 witness: a position entered on day 0 is reported by the snapshot on day
\* 1, after midnight, with at least 3 cycles captured.
C8_Witness ==
    /\ last.op = "get_positions_for_dashboard"
    /\ "S1" \in DOMAIN last.result
    /\ last.at >= HM(24, 0)
    /\ positions["S1"].entry_time < HM(8, 0)
    /\ last.result["S1"].cycles_captured >= 3

(***************************************************************************)
(* The funding cycle clock applied to given instants.                      *)
(***************************************************************************)
MinuteMarks == {0, 4, 5, 25, 30, 55}

Instants == {h * 60 + m : h \in 0..(MaxHours - 1), m \in MinuteMarks}

NextFundingTime(t) ==
    /\ last' = [op |-> "_next_funding_time", at |-> t,
                result |-> _next_funding_time(t)]
    /\ UNCHANGED <<bot, trades_file, now, config, history, positions>>

TimeToNextFunding(t) ==
    /\ last' = [op |-> "_time_to_next_funding", at |-> t,
                result |-> _time_to_next_funding(t)]
    /\ UNCHANGED <<bot, trades_file, now, config, history, positions>>

CountFundingCycles(entry_time, exit_time) ==
    /\ last' = [op |-> "_count_funding_cycles", entry |-> entry_time,
                exit |-> exit_time,
                result |-> _count_funding_cycles(entry_time, exit_time)]
    /\ UNCHANGED <<bot, trades_file, now, config, history, positions>>

\* The clock reads any instant; each function is applied to it once.
InitClock == \E t \in Instants : Constructed(DefaultConfig, t)

ClockNextFunding == last.op = "__init__" /\ NextFundingTime(now)

ClockTimeToNext == last.op = "__init__" /\ TimeToNextFunding(now)

ClockCountCycles ==
    /\ last.op = "__init__"
    /\ \E e \in Instants : CountFundingCycles(e, now)

NextClock == ClockNextFunding \/ ClockTimeToNext \/ ClockCountCycles

SpecClock == InitClock /\ [][NextClock]_vars

\* C7: count_cycles(entry, exit) is the number of funding boundaries b with
\* entry < b < exit, strict on both sides, and 0 when exit <= entry.
C7_CountCycles ==
    last.op = "_count_funding_cycles" =>
        /\ last.result = Cardinality({b \in Boundaries : last.entry < b /\ b < last.exit})
        /\ (last.exit <= last.entry => last.result = 0)

\* C7 witness: entry 06:25, exit 17:00 of the same day crosses 08:00 and 16:00.
C7_Witness ==
    /\ last.op = "_count_funding_cycles"
    /\ last.entry = HM(6, 25) /\ last.exit = HM(17, 0)
    /\ last.result = 2

\* C9 as stated: the result is the first boundary strictly after now, for
\* every instant now.
C9_Original ==
    last.op = "_next_funding_time" =>
        /\ IsBoundary(last.result)
        /\ last.result = FirstBoundaryAfter(last.at)

\* C9 amended: the result is always an exact boundary; outside the first five
\* minutes of a boundary hour it is the first boundary strictly after now;
\* within them (minute < 5 of hour 0, 8 or 16) it is the boundary that opens
\* the current hour, which is at or before now.
C9_NextFundingGrace ==
    last.op = "_next_funding_time" =>
        /\ IsBoundary(last.result)
        /\ (~InGrace(last.at) => last.result = FirstBoundaryAfter(last.at))
        /\ (InGrace(last.at) => last.result = TruncHour(last.at))

\* C9 witness: at 08:04 the boundary returned is 08:00 of the same day.
C9_Witness ==
    /\ last.op = "_next_funding_time"
    /\ last.at = HM(8, 4)
    /\ last.result = HM(8, 0)

\* C10: minutes_to_next_funding(now) is in 0..480 for every instant, also in
\* the first five minutes of a boundary hour.
C10_MinutesInRange ==
    last.op = "_time_to_next_funding" =>
        (0 <= last.result /\ last.result <= 8 * 60)

(***************************************************************************)
(* Specification of the history window: two symbols are each fed the ramp  *)
(* 1, 2, 3, ... (the k-th sample recorded for a symbol is the rate k), past *)
(* the capacity of the window.                                             *)
(***************************************************************************)
MaxWindowSamples == 23

WindowSymbols == {"S1", "S2"}

InitWindow == Constructed(DefaultConfig, StartTime)

\* the rate that continues the ramp of a symbol
NextRampRate(s) ==
    IF history[s] = <<>> THEN 1 ELSE history[s][Len(history[s])] + 1

WindowUpdate ==
    \E s \in WindowSymbols, p \in Prices :
        /\ NextRampRate(s) <= MaxWindowSamples
        /\ Update(s, FundingData(NextRampRate(s), p), TickerData(p))

NextWindow == WindowUpdate

SpecWindow == InitWindow /\ [][NextWindow]_vars

\* the number of samples recorded so far for a symbol fed the ramp
RampRecorded(s) ==
    IF last.op = "update" /\ last.symbol = s
    THEN last.funding.fundingRate
    ELSE IF history[s] = <<>> THEN 0 ELSE history[s][Len(history[s])]

\* C11: every window has at most max_history (20) samples, and a window that
\* was fed n samples holds the most recent min(n, 20) of them in insertion
\* order: of the ramp 1..n it holds n - min(n, 20) + 1, ..., n.
C11_WindowBound ==
    \A s \in DOMAIN history :
        LET n == RampRecorded(s)
            kept == Min2(n, max_history)
        IN  /\ Len(history[s]) <= max_history
            /\ (s \in WindowSymbols =>
                    history[s] = [i \in 1..kept |-> n - kept + i])

\* C11 witness: 23 samples were recorded for S1 and its window is 4, ..., 23.
C11_Witness ==
    /\ Len(history["S1"]) = max_history
    /\ history["S1"][1] = 4
    /\ history["S1"][max_history] = 23
    /\ last.op = "update" /\ last.symbol = "S1"

(***************************************************************************)
(* Specification of the market data update is handed: replies that are     *)
(* well formed, missing (None or {}) or malformed (a key is absent).       *)
(***************************************************************************)
DataSymbols == {"S1", "S2"}

FundingReplies ==
    {NoData, FundingData(300, 100), FundingWithoutRate(100), FundingWithoutMark(300)}

TickerReplies == {NoData, TickerData(100), TickerWithoutLast}

InitData == Constructed(DefaultConfig, StartTime)

DataUpdate ==
    \E s \in DataSymbols, f \in FundingReplies, k \in TickerReplies :
        /\ Len(history[s]) < MaxLedgerSamples
        /\ Update(s, f, k)

DataRegister ==
    \E s \in DataSymbols, p \in Prices, z \in Sizes :
        RegisterPosition(s, "short", 300, z, p)

DataClear == \E s \in DataSymbols : ClearPosition(s)

NextData == DataUpdate \/ DataRegister \/ DataClear

SpecData == InitData /\ [][NextData]_vars

\* a reply that is None or {}
IsMissing(reply) == ~reply.present

\* a funding reply without 'fundingRate' or 'markPrice', a ticker without 'last'
IsMalformedFunding(reply) ==
    reply.present /\ ~({"fundingRate", "markPrice"} \subseteq DOMAIN reply)

IsMalformedTicker(reply) == reply.present /\ "last" \notin DOMAIN reply

\* C12: when the funding data or the ticker data passed to update is missing
\* or malformed, update returns None and changes neither a history window
\* nor the position ledger.
C12_MissingData ==
    [][(/\ last'.op = "update"
        /\ \/ IsMissing(last'.funding) \/ IsMalformedFunding(last'.funding)
           \/ IsMissing(last'.ticker) \/ IsMalformedTicker(last'.ticker))
       => (/\ last'.result = NoSignal
           /\ history' = history
           /\ positions' = positions)]_vars

\* The part of C12 that holds: a missing reply (None or {}) makes update
\* return None and leaves every window and the ledger as they were.
MissingDataIgnored ==
    [][(/\ last'.op = "update"
        /\ (IsMissing(last'.funding) \/ IsMissing(last'.ticker)))
       => (/\ last'.result = NoSignal
           /\ history' = history
           /\ positions' = positions)]_vars

\* C13: in the exit specification, update returns open_long / open_short only
\* for a symbol that has no position in the ledger, and close only for a
\* symbol that has one; the ledger, keyed by symbol, holds one position per
\* symbol at most.
C13_SignalMatchesLedger ==
    last.op = "update" =>
        /\ (last.result.action \in OpenActions => last.symbol \notin DOMAIN positions)
        /\ (last.result.action = "close" => last.symbol \in DOMAIN positions)
        /\ get_position_count <= Cardinality(config.symbols)

\* C13 witness: a normalization close (confidence 0.9) returned for S1, which
\* has a position.
C13_Witness ==
    /\ last.op = "update" /\ last.symbol = "S1"
    /\ last.result.action = "close" /\ last.result.confidence = 9000
    /\ "S1" \in DOMAIN positions

\* C14: update never modifies the position ledger, whatever it returns: the
\* positions and their side, entry rate, entry price, entry time and size are
\* the same after update as before; the ledger changes only in
\* register_position and clear_position.
C14_UpdateKeepsLedger ==
    [][/\ (last'.op = "update" => positions' = positions)
       /\ (positions' # positions =>
               last'.op \in {"register_position", "clear_position"})]_vars

\* C14 witness: update has returned a stop-loss close for the long position of
\* S1 and the position is still in the ledger as it was registered.
C14_Witness ==
    /\ last.op = "update" /\ last.symbol = "S1"
    /\ last.result.action = "close" /\ last.result.confidence = 5000
    /\ "S1" \in DOMAIN positions
    /\ positions["S1"] = [side |-> "long", entry_rate |-> 300, entry_price |-> 100,
                          entry_time |-> HM(6, 25), size_usd |-> 50]

\* C15: update(symbol, ...) changes no history window other than that of the
\* given symbol.
C15_OtherWindowsUnchanged ==
    [][/\ DOMAIN history' = DOMAIN history
       /\ \A s \in DOMAIN history :
              history'[s] # history[s] => (last'.op = "update" /\ last'.symbol = s)]_vars

\* C15 witness: a sample was recorded for S1 while S2 held two samples and S3
\* none; they still do.
C15_Witness ==
    /\ last.op = "update" /\ last.symbol = "S1"
    /\ Len(history["S1"]) = 1
    /\ Len(history["S2"]) = 2
    /\ history["S3"] = <<>>

(***************************************************************************)
(* Specification of the sizing: calculate_size applied once to a           *)
(* confidence the evaluators produce and an available capital in cents.    *)
(***************************************************************************)
MaxCapital == 13000

Confidences == {5000, 6000, 8333, 9000, 10000}

SizeConfigs ==
    {DefaultConfig,
     [DefaultConfig EXCEPT !.max_position_size = 20, !.leverage = 3]}

InitSize == \E cfg \in SizeConfigs : Constructed(cfg, StartTime)

SizeCall ==
    /\ last.op = "__init__"
    /\ \E c \in Confidences, a \in 0..MaxCapital : CalculateSize(c, a)

NextSize == SizeCall

SpecSize == InitSize /\ [][NextSize]_vars

\* available * 0.8 * leverage * confidence of the last call, in 1/SizeUnit cents
LastRawSize == last.available_usdt * config.leverage * last.confidence

\* C16: for every confidence and available capital, calculate_size returns
\* either exactly 0 or a value >= the minimum notional (15 USD), never a value
\* strictly between.
C16_SizingFloor ==
    last.op = "calculate_size" => (last.result = 0 \/ last.result >= 15 * 100)

\* C16 witness: capital 3.74 at confidence 1.0 and leverage 5 gives 14.96,
\* below the minimum notional, and 0 is returned.
C16_Witness ==
    /\ last.op = "calculate_size"
    /\ config.leverage = 5
    /\ last.available_usdt = 374 /\ last.confidence = 10000
    /\ last.result = 0

\* C17 as stated: calculate_size returns at most max_position_size_usd *
\* leverage, and at most available_capital * 0.8 * leverage * confidence.
C17_Original ==
    last.op = "calculate_size" =>
        /\ last.result <= config.max_position_size * config.leverage * 100
        /\ last.result * SizeUnit <= LastRawSize

\* C17 amended: calculate_size returns at most max_position_size_usd *
\* leverage, and at most available_capital * 0.8 * leverage * confidence
\* rounded to 2 decimals, which exceeds that product by half a cent at most.
C17_SizingCapRounded ==
    last.op = "calculate_size" =>
        /\ last.result <= config.max_position_size * config.leverage * 100
        /\ 2 * (last.result * SizeUnit - LastRawSize) <= SizeUnit

\* C17 witness: capital 10.01 at confidence 0.9 and leverage 5 gives 36.036,
\* and 36.04 is returned.
C17_Witness ==
    /\ last.op = "calculate_size"
    /\ config.leverage = 5
    /\ last.available_usdt = 1001 /\ last.confidence = 9000
    /\ last.result = 3604

(***************************************************************************)
(* Specification of the statistics: samples are recorded for S1 and the    *)
(* statistics are computed for S1 and for a symbol the engine never saw.   *)
(***************************************************************************)
StatsRates == {-300, 200, 500}

StatsSymbols == {"S1", "ZZ"}

InitStats == Constructed([DefaultConfig EXCEPT !.symbols = {"S1", "S2"}], StartTime)

StatsUpdate ==
    \E r \in StatsRates, p \in Prices :
        /\ Len(history["S1"]) < MaxSamples
        /\ Update("S1", FundingData(r, p), TickerData(p))

StatsCall == \E s \in StatsSymbols : CalculateStats(s)

NextStats == StatsUpdate \/ StatsCall

SpecStats == InitStats /\ [][NextStats]_vars

\* C18: computing the statistics of a symbol never changes a window, and a
\* second computation with no record in between (that is, in the state the
\* first one leaves) returns the result the first one returned.
C18_StatsIdempotent ==
    [][last'.op = "_calculate_stats" =>
           /\ history' = history
           /\ last'.result = (_calculate_stats(WindowOf(last.symbol)))'
      ]_vars

\* C18 witness: the statistics of a window of three samples that are not all
\* equal were computed.
C18_Witness ==
    /\ last.op = "_calculate_stats" /\ last.symbol = "S1"
    /\ history["S1"] = <<500, -300, 200>>
    /\ last.result.mean_num = 400 /\ last.result.mean_den = 3
    /\ last.result.min = -300 /\ last.result.max = 500

\* C19: with fewer than 2 samples in the window (none, one, or a symbol the
\* engine does not know) the statistics are mean 0, std 0, min 0, max 0 and
\* nothing is raised; so the first observation of a symbol passes the
\* stability check, and update opens on it whenever the rate clears the
\* break-even rate and the entry threshold.
C19_FewSamples ==
    /\ (last.op = "_calculate_stats" /\ Len(WindowOf(last.symbol)) < 2) =>
           /\ last.result.mean_num = 0 /\ last.result.mean_den # 0
           /\ last.result.var_num = 0 /\ last.result.var_den # 0
           /\ last.result.min = 0 /\ last.result.max = 0
    /\ (last.op = "update" /\ Len(WindowOf(last.symbol)) = 1) =>
           /\ last.result.action # "raise"
           /\ (/\ Abs(LastRate) >= break_even_rate
               /\ Abs(LastRate) > config.extreme_threshold)
              => last.result.action \in OpenActions

\* C19 witness: the statistics of S1 were computed with one sample, 0.0005, in
\* its window, and are all 0.
C19_Witness ==
    /\ last.op = "_calculate_stats" /\ last.symbol = "S1"
    /\ history["S1"] = <<500>>
    /\ last.result.max = 0 /\ last.result.mean_num = 0

(***************************************************************************)
(* Specification of the signals: S1 is observed, opened on either side,    *)
(* held over funding boundaries and closed, under an entry threshold below *)
(* and one above the break-even rate.                                      *)
(***************************************************************************)
SignalRates == {-300, 10, 300, 500}

InitSignals == \E cfg \in EntryConfigs : Constructed(cfg, StartTime)

SignalsUpdate ==
    \E r \in SignalRates, p \in Prices :
        /\ Len(history["S1"]) < MaxLedgerSamples
        /\ Update("S1", FundingData(r, p), TickerData(p))

SignalsRegister ==
    \E side \in Sides, p \in Prices, z \in Sizes :
        RegisterPosition("S1", side, 300, z, p)

SignalsClear == ClearPosition("S1")

SignalsTick == \E t \in ExitClock : Tick(t)

NextSignals == SignalsUpdate \/ SignalsRegister \/ SignalsClear \/ SignalsTick

SpecSignals == InitSignals /\ [][NextSignals]_vars

\* c (in 1e-4) is clamp(|rate| / (threshold * 1.5), 0.6, 1.0), the quotient
\* taken down to a multiple of 1e-4
IsClampOfRate(c, rate, threshold) ==
    IF 2 * Abs(rate) >= 3 * threshold THEN c = 10000
    ELSE IF 10 * Abs(rate) <= 9 * threshold THEN c = 6000
    ELSE /\ c * 3 * threshold <= 20000 * Abs(rate)
         /\ 20000 * Abs(rate) < (c + 1) * 3 * threshold

\* C20: every signal update returns has a confidence in [0, 1]; that of an
\* open_long / open_short is clamp(|rate| / (entry_threshold * 1.5), 0.6, 1.0),
\* hence in [0.6, 1.0]; that of a close is 0.9, 1.0 or 0.5.
C20_ConfidenceRange ==
    (last.op = "update" /\ last.result # NoSignal) =>
        /\ 0 <= last.result.confidence /\ last.result.confidence <= 10000
        /\ last.result.action \in OpenActions =>
               /\ IsClampOfRate(last.result.confidence, LastRate, config.extreme_threshold)
               /\ 6000 <= last.result.confidence
        /\ last.result.action = "close" =>
               last.result.confidence \in {9000, 10000, 5000}

\* C20 witness: with an entry threshold of 0.0004 the rate 0.0005 opens a short
\* with confidence 0.0005 / 0.0006 = 0.8333.
C20_Witness ==
    /\ last.op = "update"
    /\ config.extreme_threshold = 400 /\ LastRate = 500
    /\ last.result.action = "open_short"
    /\ last.result.confidence = 8333

\* C21: clear_position(symbol) removes the position of the symbol and leaves
\* every other position as it was; for a symbol without position it changes
\* nothing; no window changes either way.
C21_ClearPosition ==
    [][last'.op = "clear_position" =>
           /\ DOMAIN positions' = DOMAIN positions \ {last'.symbol}
           /\ \A s \in DOMAIN positions' : positions'[s] = positions[s]
           /\ (last'.symbol \notin DOMAIN positions => positions' = positions)
           /\ history' = history
      ]_vars

\* C21 witness: the position of S1 was cleared and those of S2 and S3 remain.
C21_Witness ==
    /\ last.op = "clear_position" /\ last.symbol = "S1"
    /\ DOMAIN positions = {"S2", "S3"}
    /\ positions["S2"].side = "short" /\ positions["S3"].side = "long"

\* C22: register_position on a symbol that already has a position overwrites
\* it: the count of the ledger is unchanged, the other positions are as they
\* were, and the position of the symbol carries the new side, rate, price and
\* size and entry_time = the instant of the call.
C22_RegisterOverwrites ==
    [][(/\ last'.op = "register_position"
        /\ (last' # last \/ positions' # positions)
        /\ last'.symbol \in DOMAIN positions)
       => (/\ Cardinality(DOMAIN positions') = Cardinality(DOMAIN positions)
           /\ DOMAIN positions' = DOMAIN positions
           /\ \A s \in DOMAIN positions \ {last'.symbol} : positions'[s] = positions[s]
           /\ positions'[last'.symbol] =
                  [side |-> Lower(last'.side), entry_rate |-> last'.entry_rate,
                   entry_price |-> last'.entry_price, entry_time |-> now',
                   size_usd |-> last'.size_usd])
      ]_vars

\* C22 witness: S1, which had a position, was registered again at 08:00 as a
\* long, and its position is the new one.
C22_Witness ==
    /\ last.op = "register_position" /\ last.symbol = "S1" /\ last.replaced
    /\ last.at = HM(8, 0) /\ last.side = "long"
    /\ positions["S1"].side = "long" /\ positions["S1"].entry_time = HM(8, 0)

(***************************************************************************)
(* Specification of the symbol list: an engine constructed with an empty   *)
(* list or with S1 alone is asked about S1 and S2, which may both have     *)
(* been registered in the ledger.                                          *)
(***************************************************************************)
SymbolLists == {{}, {"S1"}}

AskedSymbols == {"S1", "S2"}

InitSymbols ==
    \E l \in SymbolLists : Constructed([DefaultConfig EXCEPT !.symbols = l], StartTime)

SymbolsUpdate ==
    \E s \in AskedSymbols, f \in {FundingData(300, 100), FundingWithoutRate(100)} :
        /\ Len(WindowOf(s)) < MaxLedgerSamples
        /\ Update(s, f, TickerData(100))

SymbolsRegister ==
    \E s \in AskedSymbols, side \in Sides, p \in Prices, z \in Sizes :
        RegisterPosition(s, side, 300, z, p)

SymbolsClear == \E s \in AskedSymbols : ClearPosition(s)

NextSymbols == SymbolsUpdate \/ SymbolsRegister \/ SymbolsClear

SpecSymbols == InitSymbols /\ [][NextSymbols]_vars

\* C23: update for a symbol that is not in the configured list returns None
\* and changes no state (no window is created or modified, the ledger is as
\* it was); an engine constructed with an empty list never returns a signal.
C23_UnconfiguredSymbol ==
    /\ [][(last'.op = "update" /\ last'.symbol \notin config.symbols)
          => (/\ last'.result = NoSignal
              /\ history' = history
              /\ positions' = positions)]_vars
    /\ []((config.symbols = {} /\ last.op = "update") => last.result = NoSignal)

\* C23 witness: update was called with the rate 0.0003 for S2, which is not
\* configured (S1 is) and has no position; it returned None and S2 has no
\* window.
C23_Witness ==
    /\ config.symbols = {"S1"}
    /\ last.op = "update" /\ last.symbol = "S2"
    /\ last.funding = FundingData(300, 100)
    /\ "S2" \notin DOMAIN positions
    /\ last.result = NoSignal
    /\ "S2" \notin DOMAIN history

(***************************************************************************)
(* Timestamps with timezone information.  A datetime is its wall-clock     *)
(* reading (minutes since 00:00 of day 0) and its tzinfo: none (naive) or  *)
(* a UTC offset in minutes.  The clock functions normalize what they are   *)
(* given to a UTC instant before they use it.                              *)
(***************************************************************************)
Naive(wall) == [wall |-> wall, aware |-> FALSE]

Aware(wall, utcoffset) == [wall |-> wall, aware |-> TRUE, utcoffset |-> utcoffset]

\* now.replace(tzinfo=timezone.utc)
ReplaceTzinfoUtc(stamp) == Aware(stamp.wall, 0)

\* now.astimezone(timezone.utc), as a UTC instant
AsTimezoneUtc(stamp) == stamp.wall - stamp.utcoffset

\* Variant of the normalization that tags every timestamp UTC as it stands.
NormalizeUtcKeepsWall(stamp) == AsTimezoneUtc(ReplaceTzinfoUtc(stamp))

\* if now.tzinfo is None: now = now.replace(tzinfo=timezone.utc);
\* now_utc = now.astimezone(timezone.utc)
NormalizeUtc(stamp) ==
    AsTimezoneUtc(IF ~stamp.aware THEN ReplaceTzinfoUtc(stamp) ELSE stamp)

NextFundingTimeOfStamp(stamp) ==
    /\ last' = [op |-> "_next_funding_time", at |-> stamp,
                result |-> _next_funding_time(NormalizeUtc(stamp))]
    /\ UNCHANGED <<bot, trades_file, now, config, history, positions>>

TimeToNextFundingOfStamp(stamp) ==
    /\ last' = [op |-> "_time_to_next_funding", at |-> stamp,
                result |-> _time_to_next_funding(NormalizeUtc(stamp))]
    /\ UNCHANGED <<bot, trades_file, now, config, history, positions>>

CountFundingCyclesOfStamps(entry_time, exit_time) ==
    /\ last' = [op |-> "_count_funding_cycles", entry |-> entry_time,
                exit |-> exit_time,
                result |-> _count_funding_cycles(NormalizeUtc(entry_time),
                                                 NormalizeUtc(exit_time))]
    /\ UNCHANGED <<bot, trades_file, now, config, history, positions>>

(***************************************************************************)
(* Specification of the clock under timezones: each function is applied    *)
(* once to naive timestamps and to timestamps of UTC, UTC-03:00 and        *)
(* UTC+05:30.                                                              *)
(***************************************************************************)
ZoneWalls ==
    {HM(6, 25), HM(8, 0), HM(8, 4), HM(14, 0), HM(17, 0), HM(23, 55), HM(25, 30)}

ZoneOffsets == {0, -180, 330}

Stamps ==
    {Naive(w) : w \in ZoneWalls} \cup {Aware(w, o) : w \in ZoneWalls, o \in ZoneOffsets}

InitZone == Constructed(DefaultConfig, StartTime)

ZoneNextFunding ==
    last.op = "__init__" /\ \E s \in Stamps : NextFundingTimeOfStamp(s)

ZoneTimeToNext ==
    last.op = "__init__" /\ \E s \in Stamps : TimeToNextFundingOfStamp(s)

ZoneCountCycles ==
    last.op = "__init__" /\ \E e \in Stamps, x \in Stamps : CountFundingCyclesOfStamps(e, x)

NextZone == ZoneNextFunding \/ ZoneTimeToNext \/ ZoneCountCycles

SpecZone == InitZone /\ [][NextZone]_vars

\* the same instant as a timestamp tagged UTC: the wall clock of a naive
\* timestamp read as UTC, the wall clock of an aware one less its offset
SameInstantUtc(stamp) ==
    Aware(IF stamp.aware THEN stamp.wall - stamp.utcoffset ELSE stamp.wall, 0)

\* C24: next_funding_time, minutes_to_next_funding and count_cycles give for a
\* naive timestamp the result they give for the same wall clock tagged UTC,
\* and for an aware non-UTC timestamp the result they give for the
\* equivalent UTC instant.
C24_TimezoneLeniency ==
    /\ last.op = "_next_funding_time" =>
           last.result = _next_funding_time(NormalizeUtc(SameInstantUtc(last.at)))
    /\ last.op = "_time_to_next_funding" =>
           last.result = _time_to_next_funding(NormalizeUtc(SameInstantUtc(last.at)))
    /\ last.op = "_count_funding_cycles" =>
           last.result = _count_funding_cycles(NormalizeUtc(SameInstantUtc(last.entry)),
                                               NormalizeUtc(SameInstantUtc(last.exit)))

\* C24 witness: from the naive 06:25 to 14:00 at UTC-03:00 (17:00 UTC) of the
\* same day two boundaries, 08:00 and 16:00 UTC, are counted.
C24_Witness ==
    /\ last.op = "_count_funding_cycles"
    /\ last.entry = Naive(HM(6, 25))
    /\ last.exit = Aware(HM(14, 0), -180)
    /\ last.result = 2

(***************************************************************************)
(* Specification of the positions snapshot: three symbols are registered   *)
(* on either side with two sizes and cleared while the clock advances, and *)
(* the snapshot is taken.                                                  *)
(***************************************************************************)
SnapshotSymbols == {"S1", "S2", "S3"}

SnapshotSizes == {50, 80}

InitSnapshot == Constructed(DefaultConfig, StartTime)

SnapshotUpdate ==
    \E p \in Prices :
        /\ Len(history["S1"]) < MaxLedgerSamples
        /\ Update("S1", FundingData(300, p), TickerData(p))

SnapshotRegister ==
    \E s \in SnapshotSymbols, side \in Sides, p \in Prices, z \in SnapshotSizes :
        RegisterPosition(s, side, 300, z, p)

SnapshotClear == \E s \in SnapshotSymbols : ClearPosition(s)

SnapshotTick == \E t \in ExitClock : Tick(t)

SnapshotTake == GetPositionsForDashboard

NextSnapshot ==
    \/ SnapshotUpdate \/ SnapshotRegister \/ SnapshotClear
    \/ SnapshotTick \/ SnapshotTake

SpecSnapshot == InitSnapshot /\ [][NextSnapshot]_vars

\* C25: the positions snapshot has exactly one entry per position of the
\* ledger (the same key set), each with the side, size_usd and entry_rate of
\* that position, and producing it changes neither the ledger nor a window.
C25_SnapshotMatchesLedger ==
    [][last'.op = "get_positions_for_dashboard" =>
           /\ DOMAIN last'.result = DOMAIN positions
           /\ \A s \in DOMAIN positions :
                  /\ last'.result[s].side = positions[s].side
                  /\ last'.result[s].size_usd = positions[s].size_usd
                  /\ last'.result[s].entry_rate = positions[s].entry_rate
           /\ positions' = positions
           /\ history' = history
      ]_vars

\* C25 witness: a snapshot of a ledger with a short of 50 on S1 and a short
\* of 80 on S2 has those two entries.
C25_Witness ==
    /\ last.op = "get_positions_for_dashboard"
    /\ DOMAIN positions = {"S1", "S2"}
    /\ DOMAIN last.result = {"S1", "S2"}
    /\ last.result["S1"].side = "short" /\ last.result["S1"].size_usd = 50
    /\ last.result["S2"].side = "short" /\ last.result["S2"].size_usd = 80

\* C27: every update with present funding and ticker data for a configured
\* symbol appends exactly one sample, the observed rate, to the window of
\* that symbol (evicting the oldest one from a full window) and leaves the
\* other windows alone, whatever it returns.
C27_UpdateRecordsSample ==
    [][(/\ last'.op = "update"
        /\ last'.funding.present /\ last'.ticker.present
        /\ last'.symbol \in config.symbols)
       => LET s == last'.symbol
              r == last'.funding.fundingRate
          IN  /\ history'[s] = IF Len(history[s]) < max_history
                               THEN Append(history[s], r)
                               ELSE Append(Tail(history[s]), r)
              /\ \A o \in DOMAIN history \ {s} : history'[o] = history[o]
      ]_vars

\* C27 witness: with max_positions = 1 and the only slot taken by S2, three
\* updates of S1 at the rate 0.0005 returned None and the window of S1 holds
\* the three samples.
C27_Witness ==
    /\ config.max_positions = 1
    /\ DOMAIN positions = {"S2"}
    /\ last.op = "update" /\ last.symbol = "S1" /\ LastRate = 500
    /\ last.result = NoSignal
    /\ history["S1"] = <<500, 500, 500>>

C29_ExitPrecedence ==
    (LastIsExitEvaluation /\ last.result.action = "close")
    => LET against == \/ (LastSide = "short" /\ LastRate < 0)
                      \/ (LastSide = "long" /\ LastRate > 0)
       IN  /\ (LastCycles >= 1 /\ Abs(LastRate) < config.min_threshold)
                  => last.result.confidence = 9000
           /\ last.result.confidence = 10000
                  => (/\ LastCycles >= 1
                      /\ against
                      /\ Abs(LastRate) >= config.min_threshold)

\* C29 witness: a short held over the 08:00 boundary sees the rate -0.00001,
\* against its side and below the exit threshold, and the close returned is
\* the normalization one.
C29_Witness ==
    /\ LastIsExitEvaluation /\ LastSide = "short" /\ LastRate = -10
    /\ LastCycles = 1
    /\ last.result.action = "close" /\ last.result.confidence = 9000

\* a reversal close is returned in the exit specification
ReversalCloseReturned ==
    /\ LastIsExitEvaluation /\ LastSide = "short" /\ LastRate = -100
    /\ LastCycles = 1
    /\ last.result.action = "close" /\ last.result.confidence = 10000

(***************************************************************************)
(* The polling loop of main.py.  ArgenFundingBot.run calls                 *)
(* _execute_cycle_multi once per tick; the tick visits                     *)
(* self.strategy.symbols in list order and gives the loop up only at its   *)
(* awaits (asyncio.sleep), so the body of the for loop for one symbol is   *)
(* one step.  bot.cursor is the position in the list of the symbol visited *)
(* next (0: no tick in progress).  bot.available_usdt is the local of that *)
(* name, held in units of 1/leverage cent (the cents of capital times the  *)
(* leverage), so that size_full / leverage is subtracted exactly.          *)
(* bot.running is self.running and bot.loop the state of the coroutine     *)
(* run: "not started", "looping", "returned" (the break after the graceful *)
(* shutdown) or "cancelled" (an exception left it).                        *)
(***************************************************************************)
MaxCycles == 2      \* ticks run by the loop in the bounded specifications

\* if self.cycle_count % 60 == 0: the only reading of cycle_count, which is
\* therefore kept modulo 60
SummaryEvery == 60

\* symbols = self.strategy.symbols, in list order: the configured symbols in
\* the order of their names
SymbolRanking == <<"S1", "S2", "S3", "S4">>

InConfig(symbol) == symbol \in config.symbols

SymbolOrder == SelectSeq(SymbolRanking, InConfig)

\* the configuration of the bot: three pairs, at most two positions
BotConfig ==
    [DefaultConfig EXCEPT !.symbols = {"S1", "S2", "S3"}, !.max_positions = 2]

\* balance_simple.get('USDT', 0), in cents: 3.00 is too little for an order
\* (size 12.00); 125.00 gives the capped size 500.00 and then, from the 25.00
\* left, 100.00.
Balances == {300, 12500}

\* what fetch_funding_rate returns: None, or a dict with 'fundingRate' and
\* 'markPrice'
BotFundingReplies == {NoData, FundingData(300, 100), FundingData(20, 100)}

\* what fetch_ticker returns
BotTickerReplies == {NoData, TickerData(100)}

\* the instants the loop wakes up at: 06:25 and 08:05 of the first day
BotClock == {HM(6, 25), HM(8, 5)}

\* self.history after lines 136-140 of update
RecordedHistory(symbol, funding_data) ==
    LET window == IF symbol \in DOMAIN history THEN history[symbol] ELSE <<>>
    IN  [s \in DOMAIN history \cup {symbol} |->
            IF s = symbol
            THEN _update_history(window, funding_data.fundingRate)
            ELSE history[s]]

\* self.positions after register_position called when the clock reads t
LedgerWith(symbol, side, entry_rate, size_usd, entry_price, t) ==
    [s \in DOMAIN positions \cup {symbol} |->
        IF s = symbol
        THEN [side |-> Lower(side),
              entry_rate |-> entry_rate,
              entry_price |-> entry_price,
              entry_time |-> t,
              size_usd |-> size_usd]
        ELSE positions[s]]

\* self.positions after clear_position
LedgerWithout(symbol) ==
    IF symbol \in DOMAIN positions
    THEN [s \in DOMAIN positions \ {symbol} |-> positions[s]]
    ELSE positions

\* metrics['cycles_captured'] of get_position_metrics called when the clock
\* reads t
MetricsCycles(symbol, t) == _count_funding_cycles(positions[symbol].entry_time, t)

\* A row of trades_executed.csv: symbol, action, size_usd, entry_price,
\* funding_rate, cycles_captured and status (the timestamps, the exit price,
\* the PnL and the hold hours are left out).  The entry columns hold the
\* numbers the row is written from, cycles_captured is the string the file
\* holds: "" until the exit, str(cycles_captured) after it.
OpenRow(symbol, action, size_usd, entry_price, funding_rate) ==
    [symbol |-> symbol, action |-> action, size_usd |-> size_usd,
     entry_price |-> entry_price, funding_rate |-> funding_rate,
     cycles_captured |-> "", status |-> "OPEN"]

\* the file after log_trade_entry
log_trade_entry(symbol, action, size_usd, entry_price, funding_rate) ==
    Append(trades_file, OpenRow(symbol, action, size_usd, entry_price, funding_rate))

\* a log_trade_exit that closes the first open row of the file, whatever its
\* symbol
LogTradeExitFirstOpen(symbol, exit_price, cycles_captured) ==
    [i \in DOMAIN trades_file |->
        IF /\ trades_file[i].status = "OPEN"
           /\ \A j \in 1..(i - 1) : trades_file[j].status # "OPEN"
        THEN [trades_file[i] EXCEPT !.cycles_captured = ToString(cycles_captured),
                                    !.status = "CLOSED"]
        ELSE trades_file[i]]

\* the file after log_trade_exit: every OPEN row of the symbol is closed
log_trade_exit(symbol, exit_price, cycles_captured) ==
    [i \in DOMAIN trades_file |->
        IF trades_file[i].symbol = symbol /\ trades_file[i].status = "OPEN"
        THEN [trades_file[i] EXCEPT !.cycles_captured = ToString(cycles_captured),
                                    !.status = "CLOSED"]
        ELSE trades_file[i]]

\* update's decision with no cap on the number of positions
UpdateDecisionNoCap(symbol, funding_data, hist) ==
    LET stats == _calculate_stats(hist)
        rate == funding_data.fundingRate
    IN  IF Len(hist) > 5 /\ StdExceedsHalfRate(stats, rate)
        THEN NoSignal
        ELSE IF symbol \in DOMAIN positions
        THEN _evaluate_exit(symbol, rate, funding_data.markPrice, stats)
        ELSE _evaluate_entry(symbol, rate, funding_data.markPrice, stats)

\* an entry gate that tests the size only
ShouldExecuteEntrySizeOnly(signal, size_usd) == size_usd >= MinNotional

\* _should_execute_entry; size_usd is what its call of calculate_size returns
_should_execute_entry(signal, size_usd) ==
    IF signal.symbol \in get_active_positions THEN FALSE
    ELSE IF get_position_count >= config.max_positions THEN FALSE
    ELSE size_usd >= MinNotional

\* self.risk.can_trade(): the risk limiter lets the tick run or pauses it
CanTradeReplies == BOOLEAN

\* create_order returns a dict when the exchange took the order, None otherwise
OrderReplies == {"filled", "failed"}

\* a test that takes whatever create_order returns for an order placed
OrderAlwaysTruthy(order) == TRUE

\* if order:
OrderTruthy(order) == order = "filled"

\* What is recorded of one pass of the loop body: the symbol, whether both
\* replies were there, the clock readings of update (at) and of the execution
\* (executed_at), the signal, should_execute, the order sent ("none" when none
\* was) and the size computed for it, the ledger count and the capital the
\* pass started with; raised is the exception that left the tick, if any.
PollCall(symbol, data, signal, should_execute, order, size_usd, raised, t) ==
    [op |-> "_execute_cycle_multi", symbol |-> symbol, at |-> now,
     executed_at |-> t,
     data |-> data, signal |-> signal,
     should_execute |-> should_execute, order |-> order,
     size_usd |-> size_usd, raised |-> raised,
     count_before |-> get_position_count,
     available_before |-> bot.available_usdt]

\* the loop moves on to the next symbol
NextSymbol == [bot EXCEPT !.cursor = @ + 1]

\* an exception leaves _execute_cycle_multi; run logs it and the tick is over
TickAborted == Idle(bot.cycle_count)

\* a pass that sends no order: continue, no signal, or an entry not executed
NoExecution(symbol, data, signal, size_usd, t) ==
    /\ bot' = NextSymbol
    /\ positions' = positions
    /\ trades_file' = trades_file
    /\ last' = PollCall(symbol, data, signal, FALSE, "none", size_usd, None, t)

\* a close that writes the cycles of the signal into the trade log
ExecuteCloseSignalCycles(signal, order, t) ==
    IF signal.mark_price = 0
    THEN /\ bot' = TickAborted
         /\ positions' = positions
         /\ trades_file' = trades_file
         /\ last' = PollCall(signal.symbol, TRUE, signal, TRUE, "none", 0,
                             "ZeroDivisionError", t)
    ELSE /\ bot' = NextSymbol
         /\ positions' = IF OrderTruthy(order) THEN LedgerWithout(signal.symbol)
                         ELSE positions
         /\ trades_file' = IF OrderTruthy(order)
                           THEN log_trade_exit(signal.symbol, signal.mark_price,
                                               signal.cycles_captured)
                           ELSE trades_file
         /\ last' = PollCall(signal.symbol, TRUE, signal, TRUE, order,
                             positions[signal.symbol].size_usd, None, t)

\* _execute_close, order being what create_order returns and t the reading
\* of the clock in get_position_metrics
_execute_close(signal, order, t) ==
    IF signal.mark_price = 0
    THEN \* pos_info['size_usd'] / signal.mark_price
         /\ bot' = TickAborted
         /\ positions' = positions
         /\ trades_file' = trades_file
         /\ last' = PollCall(signal.symbol, TRUE, signal, TRUE, "none", 0,
                             "ZeroDivisionError", t)
    ELSE /\ bot' = NextSymbol
         /\ positions' = IF OrderTruthy(order) THEN LedgerWithout(signal.symbol)
                         ELSE positions
         /\ trades_file' = IF OrderTruthy(order)
                           THEN log_trade_exit(signal.symbol, signal.mark_price,
                                               MetricsCycles(signal.symbol, t))
                           ELSE trades_file
         /\ last' = PollCall(signal.symbol, TRUE, signal, TRUE, order,
                             positions[signal.symbol].size_usd, None, t)

\* an entry that takes the whole size, not the margin, off the capital
ExecuteEntryFullSize(signal, size_usd, order, t) ==
    LET side == IF signal.action = "open_short" THEN "sell" ELSE "buy"
    IN  IF signal.mark_price = 0
        THEN /\ bot' = TickAborted
             /\ positions' = positions
             /\ trades_file' = trades_file
             /\ last' = PollCall(signal.symbol, TRUE, signal, TRUE, "none", size_usd,
                                 "ZeroDivisionError", t)
        ELSE IF OrderTruthy(order)
        THEN /\ positions' = LedgerWith(signal.symbol,
                                        IF side = "sell" THEN "short" ELSE "long",
                                        signal.funding_rate, size_usd, signal.mark_price, t)
             /\ trades_file' = log_trade_entry(signal.symbol, signal.action, size_usd,
                                               signal.mark_price, signal.funding_rate)
             /\ bot' = [bot EXCEPT !.cursor = @ + 1,
                                   !.available_usdt = @ - size_usd * config.leverage]
             /\ last' = PollCall(signal.symbol, TRUE, signal, TRUE, order, size_usd, None, t)
        ELSE /\ bot' = NextSymbol
             /\ positions' = positions
             /\ trades_file' = trades_file
             /\ last' = PollCall(signal.symbol, TRUE, signal, TRUE, order, size_usd, None, t)

\* an entry that takes the side opposite to the signal's
ExecuteEntrySideSwapped(signal, size_usd, order, t) ==
    LET side == IF signal.action = "open_short" THEN "buy" ELSE "sell"
    IN  IF signal.mark_price = 0
        THEN /\ bot' = TickAborted
             /\ positions' = positions
             /\ trades_file' = trades_file
             /\ last' = PollCall(signal.symbol, TRUE, signal, TRUE, "none", size_usd,
                                 "ZeroDivisionError", t)
        ELSE IF OrderTruthy(order)
        THEN /\ positions' = LedgerWith(signal.symbol,
                                        IF side = "sell" THEN "short" ELSE "long",
                                        signal.funding_rate, size_usd, signal.mark_price, t)
             /\ trades_file' = log_trade_entry(signal.symbol, signal.action, size_usd,
                                               signal.mark_price, signal.funding_rate)
             /\ bot' = [bot EXCEPT !.cursor = @ + 1,
                                   !.available_usdt = @ - size_usd]
             /\ last' = PollCall(signal.symbol, TRUE, signal, TRUE, order, size_usd, None, t)
        ELSE /\ bot' = NextSymbol
             /\ positions' = positions
             /\ trades_file' = trades_file
             /\ last' = PollCall(signal.symbol, TRUE, signal, TRUE, order, size_usd, None, t)

\* _execute_entry and, when it succeeds, the update of available_usdt;
\* size_usd is what calculate_size(signal.confidence, available_usdt) returns
\* in _should_execute_entry, in _execute_entry and at line 166; t is the
\* reading of the clock in register_position.  In the units of
\* bot.available_usdt, size_full / leverage is size_usd.
_execute_entry(signal, size_usd, order, t) ==
    LET side == IF signal.action = "open_short" THEN "sell" ELSE "buy"
    IN  IF signal.mark_price = 0
        THEN \* size_usd / signal.mark_price
             /\ bot' = TickAborted
             /\ positions' = positions
             /\ trades_file' = trades_file
             /\ last' = PollCall(signal.symbol, TRUE, signal, TRUE, "none", size_usd,
                                 "ZeroDivisionError", t)
        ELSE IF OrderTruthy(order)
        THEN /\ positions' = LedgerWith(signal.symbol,
                                        IF side = "sell" THEN "short" ELSE "long",
                                        signal.funding_rate, size_usd, signal.mark_price, t)
             /\ trades_file' = log_trade_entry(signal.symbol, signal.action, size_usd,
                                               signal.mark_price, signal.funding_rate)
             /\ bot' = [bot EXCEPT !.cursor = @ + 1,
                                   !.available_usdt = @ - size_usd]
             /\ last' = PollCall(signal.symbol, TRUE, signal, TRUE, order, size_usd, None, t)
        ELSE /\ bot' = NextSymbol
             /\ positions' = positions
             /\ trades_file' = trades_file
             /\ last' = PollCall(signal.symbol, TRUE, signal, TRUE, order, size_usd, None, t)

\* a loop body with no cap on the number of positions, neither in the
\* decision nor in the entry gate
PollSymbolUncapped(symbol, funding, ticker, order, t) ==
    /\ now' = t
    /\ config' = config
    /\ IF ~funding.present \/ ~ticker.present
       THEN NoExecution(symbol, FALSE, NoSignal, 0, t) /\ history' = history
       ELSE IF symbol \notin config.symbols
       THEN NoExecution(symbol, TRUE, NoSignal, 0, t) /\ history' = history
       ELSE \E hist \in {RecordedHistory(symbol, funding)} :
            \E signal \in {UpdateDecisionNoCap(symbol, funding, hist[symbol])} :
                /\ history' = hist
                /\ IF signal.action = None
                   THEN NoExecution(symbol, TRUE, signal, 0, t)
                   ELSE IF signal.action = "close"
                   THEN _execute_close(signal, order, t)
                   ELSE \E size_usd \in SizeOfProduct(bot.available_usdt * signal.confidence) :
                          IF ShouldExecuteEntrySizeOnly(signal, size_usd)
                          THEN _execute_entry(signal, size_usd, order, t)
                          ELSE NoExecution(symbol, TRUE, signal, size_usd, t)

\* The body of the for loop of _execute_cycle_multi for one symbol, given the
\* replies of the exchange; the clock reads now in update and t when the
\* order has been sent.
PollSymbol(symbol, funding, ticker, order, t) ==
    /\ now' = t
    /\ config' = config
    /\ IF ~funding.present \/ ~ticker.present
       THEN NoExecution(symbol, FALSE, NoSignal, 0, t) /\ history' = history
       ELSE IF symbol \notin config.symbols
       THEN NoExecution(symbol, TRUE, NoSignal, 0, t) /\ history' = history
       ELSE \E hist \in {RecordedHistory(symbol, funding)} :
            \E signal \in {UpdateDecision(symbol, funding, hist[symbol])} :
                /\ history' = hist
                /\ IF signal.action = None
                   THEN NoExecution(symbol, TRUE, signal, 0, t)
                   ELSE IF signal.action = "close"
                   THEN _execute_close(signal, order, t)
                   ELSE \E size_usd \in SizeOfProduct(bot.available_usdt * signal.confidence) :
                          IF _should_execute_entry(signal, size_usd)
                          THEN _execute_entry(signal, size_usd, order, t)
                          ELSE NoExecution(symbol, TRUE, signal, size_usd, t)

\* a tick that runs whatever the risk limiter answers
CycleBeginIgnoresRisk(can_trade, balance) ==
    /\ bot.cursor = 0
    /\ bot.loop = "not started" \/ (bot.loop = "looping" /\ bot.running)
    /\ bot' = [cycle_count |-> (bot.cycle_count + 1) % SummaryEvery, cursor |-> 1,
               available_usdt |-> balance * config.leverage,
               running |-> TRUE, loop |-> "looping"]
    /\ last' = [op |-> "run", cycle_count |-> (bot.cycle_count + 1) % SummaryEvery,
                can_trade |-> can_trade, at |-> now]
    /\ UNCHANGED <<now, config, history, positions, trades_file>>

\* run: self.running = True on its first pass, while self.running,
\* cycle_count += 1, then the head of _execute_cycle_multi.  can_trade is the
\* answer of the risk limiter, balance the free USDT.
CycleBegin(can_trade, balance) ==
    /\ bot.cursor = 0
    /\ bot.loop = "not started" \/ (bot.loop = "looping" /\ bot.running)
    /\ bot' = IF can_trade
              THEN [cycle_count |-> (bot.cycle_count + 1) % SummaryEvery, cursor |-> 1,
                    available_usdt |-> balance * config.leverage,
                    running |-> TRUE, loop |-> "looping"]
              ELSE Idle((bot.cycle_count + 1) % SummaryEvery)
    /\ last' = [op |-> "run", cycle_count |-> (bot.cycle_count + 1) % SummaryEvery,
                can_trade |-> can_trade, at |-> now]
    /\ UNCHANGED <<now, config, history, positions, trades_file>>

\* the for loop is at SymbolOrder[bot.cursor]
CycleSymbol(funding, ticker, order, t) ==
    /\ bot.loop = "looping"
    /\ bot.cursor \in DOMAIN SymbolOrder
    /\ t >= now
    /\ PollSymbol(SymbolOrder[bot.cursor], funding, ticker, order, t)

\* after the loop: the dashboard gets the positions, the tick is over
CycleEnd ==
    /\ bot.loop = "looping"
    /\ bot.cursor = Len(SymbolOrder) + 1
    /\ bot' = Idle(bot.cycle_count)
    /\ last' = [op |-> "update_positions", at |-> now,
                result |-> get_positions_for_dashboard]
    /\ UNCHANGED <<now, config, history, positions, trades_file>>

\* await asyncio.sleep(wait_time): the clock advances between two ticks
CycleSleep(t) ==
    /\ bot.loop = "looping"
    /\ bot.cursor = 0
    /\ Tick(t)

\* An interrupt while run is looping.  caught: KeyboardInterrupt is raised in
\* the synchronous code of a tick, inside the try of run, whose handler calls
\* _graceful_shutdown and breaks.  Otherwise the event loop cancels run at the
\* await it is suspended at (CancelledError, which neither handler of run
\* catches) or ends without resuming it.
Interrupt(caught) ==
    /\ bot.loop = "looping"
    /\ caught => bot.cursor > 0
    /\ bot' = IF caught
              THEN [bot EXCEPT !.cursor = 0, !.available_usdt = 0,
                               !.running = FALSE, !.loop = "returned"]
              ELSE [bot EXCEPT !.cursor = 0, !.available_usdt = 0,
                               !.loop = "cancelled"]
    /\ last' = [op |-> "interrupt", caught |-> caught, at |-> now]
    /\ UNCHANGED <<now, config, history, positions, trades_file>>

InitBot == Constructed(BotConfig, StartTime)

BotBegin ==
    /\ bot.cycle_count < MaxCycles
    /\ \E can_trade \in CanTradeReplies, balance \in Balances :
          CycleBegin(can_trade, balance)

\* a pass during which the clock does not move
BotSymbol ==
    \E funding \in BotFundingReplies, ticker \in BotTickerReplies,
       order \in OrderReplies :
        CycleSymbol(funding, ticker, order, now)

BotEnd == CycleEnd

BotSleep == \E t \in BotClock : CycleSleep(t)

NextBot == BotBegin \/ BotSymbol \/ BotEnd \/ BotSleep

SpecBot == InitBot /\ [][NextBot]_vars

\* C26: in the polling loop every pass of the loop body is for the symbol the
\* cursor is at and moves the cursor to the next symbol (or ends the tick), a
\* pass changes the ledger entry of its own symbol at most, it adds a position
\* only when the ledger, with the registrations of the earlier symbols of the
\* tick in it, is below max_positions, and the ledger count is at most
\* max_positions in every state, between two passes of a tick included.
C26_SequentialCap ==
    /\ [][(last'.op = "_execute_cycle_multi" /\ bot' # bot)
            => /\ bot.cursor \in DOMAIN SymbolOrder
               /\ last'.symbol = SymbolOrder[bot.cursor]
               /\ bot'.cursor \in {bot.cursor + 1, 0}
               /\ \A s \in (DOMAIN positions \cup DOMAIN positions') \ {last'.symbol} :
                      /\ s \in DOMAIN positions /\ s \in DOMAIN positions'
                      /\ positions'[s] = positions[s]
               /\ (DOMAIN positions' \ DOMAIN positions # {})
                      => get_position_count < config.max_positions]_vars
    /\ [](get_position_count <= config.max_positions)

\* C26 witness: in the first tick S1 and S2 were opened (sizes 500.00 and
\* 100.00, the second from the capital the first left), the ledger is at
\* max_positions = 2 in the middle of the tick, and S3, seen at the extreme
\* rate 0.0003, got no signal.
C26_Witness ==
    /\ bot.cycle_count = 1 /\ bot.cursor = Len(SymbolOrder) + 1
    /\ last.op = "_execute_cycle_multi" /\ last.symbol = "S3" /\ last.data
    /\ "S3" \in DOMAIN history /\ history["S3"] = <<300>>
    /\ last.count_before = 2 /\ config.max_positions = 2
    /\ last.signal.action = None
    /\ DOMAIN positions = {"S1", "S2"}
    /\ positions["S1"].size_usd = 50000 /\ positions["S2"].size_usd = 10000

\* C30: a pass of the loop body whose order was refused by the exchange
\* (create_order returned None) leaves the ledger as it was and does not
\* reduce available_usdt; after a refused close the position is still in the
\* ledger, with the entry_time it had.
C30_FailedOrder ==
    [][(last'.op = "_execute_cycle_multi" /\ bot' # bot /\ last'.order = "failed")
        => /\ positions' = positions
           /\ bot'.available_usdt = bot.available_usdt
           /\ last'.signal.action \in OpenActions
                  => last'.symbol \notin DOMAIN positions'
           /\ last'.signal.action = "close"
                  => /\ last'.symbol \in DOMAIN positions'
                     /\ positions'[last'.symbol].entry_time
                            = positions[last'.symbol].entry_time]_vars

\* C30 witness: the close of S1, opened at 06:25, was refused at 08:05, and S1
\* is in the ledger with entry_time 06:25.
C30_Witness ==
    /\ last.op = "_execute_cycle_multi" /\ last.order = "failed"
    /\ last.symbol = "S1" /\ last.signal.action = "close"
    /\ now = HM(8, 5)
    /\ "S1" \in DOMAIN positions /\ positions["S1"].entry_time = HM(6, 25)

\* the order of an entry was refused: nothing registered, the capital of the
\* tick as it was
FailedEntryReached ==
    /\ last.op = "_execute_cycle_multi" /\ last.order = "failed"
    /\ last.signal.action = "open_short" /\ last.should_execute
    /\ last.symbol \notin DOMAIN positions
    /\ bot.cursor > 0 /\ bot.available_usdt = last.available_before

\* an entry was refused for its size: 3.00 of capital give a size below 15.00
SizeRefusalReached ==
    /\ last.op = "_execute_cycle_multi" /\ last.signal.action = "open_short"
    /\ ~last.should_execute /\ last.size_usd = 0 /\ last.count_before = 0

(***************************************************************************)
(* Cycle counting over a split interval: _count_funding_cycles applied to  *)
(* the three pairs of instants a <= b <= c.                                *)
(***************************************************************************)
\* the instants the split is taken at: the hours and half hours
SplitInstants == {h * 60 + m : h \in 0..(MaxHours - 1), m \in {0, 30}}

CountSplit(a, b, c) ==
    /\ last' = [op |-> "count_split", a |-> a, b |-> b, c |-> c,
                whole |-> _count_funding_cycles(a, c),
                head |-> _count_funding_cycles(a, b),
                tail |-> _count_funding_cycles(b, c)]
    /\ UNCHANGED <<bot, trades_file, now, config, history, positions>>

InitSplit == \E t \in SplitInstants : Constructed(DefaultConfig, t)

\* the clock reads c; the count is applied once to each a <= b <= c
SplitCount ==
    /\ last.op = "__init__"
    /\ \E a \in SplitInstants, b \in SplitInstants :
          a <= b /\ b <= now /\ CountSplit(a, b, now)

NextSplit == SplitCount

SpecSplit == InitSplit /\ [][NextSplit]_vars

\* C35: for instants a <= b <= c, if b is not a funding boundary then
\* count_cycles(a, c) = count_cycles(a, b) + count_cycles(b, c); and the count
\* does not decrease when the exit moves from b to c, nor increase when the
\* entry moves from a to b.
C35_SplitAdditive ==
    last.op = "count_split" =>
        /\ (~IsBoundary(last.b) => last.whole = last.head + last.tail)
        /\ last.head <= last.whole
        /\ last.tail <= last.whole

\* C35 witness: 06:30 to 17:30 split at 09:30: 2 = 1 + 1.
C35_Witness ==
    /\ last.op = "count_split"
    /\ last.a = HM(6, 30) /\ last.b = HM(9, 30) /\ last.c = HM(17, 30)
    /\ last.whole = 2 /\ last.head = 1 /\ last.tail = 1

\* a split exactly at a boundary loses that boundary: 06:30 to 09:30 split at
\* 08:00 counts 1 as a whole and 0 + 0 in two parts
SplitAtBoundaryLosesOne ==
    /\ last.op = "count_split"
    /\ last.a = HM(6, 30) /\ last.b = HM(8, 0) /\ last.c = HM(9, 30)
    /\ last.whole = 1 /\ last.head = 0 /\ last.tail = 0

(***************************************************************************)
(* A tick refused by the risk limiter.                                     *)
(***************************************************************************)
\* C34: a tick begun while the risk limiter does not allow trading calls no
\* engine operation: the for loop is not entered (no pass follows, so no
\* signal is produced), and the history windows, the positions and the trade
\* log are what they were, open positions included.
C34_PausedTick ==
    [][(bot'.cycle_count # bot.cycle_count /\ ~last'.can_trade)
          => /\ last'.op = "run"
             /\ bot'.cursor = 0
             /\ history' = history
             /\ positions' = positions
             /\ trades_file' = trades_file]_vars

\* a tick has been refused while a position was open
C34_Witness ==
    /\ last.op = "run"
    /\ ~last.can_trade
    /\ bot.cursor = 0
    /\ DOMAIN positions # {}

(***************************************************************************)
(* The side of the positions the loop registers: two pairs, rates on both  *)
(* sides of zero, at the break-even rate (0.00025) and between the entry   *)
(* threshold and the break-even rate (0.0002).                             *)
(***************************************************************************)
SidesConfig ==
    [DefaultConfig EXCEPT !.symbols = {"S1", "S2"}, !.max_positions = 2]

SidesFundingReplies ==
    {FundingData(300, 100), FundingData(-300, 100), FundingData(250, 100),
     FundingData(-200, 100), FundingData(20, 100)}

SidesBalances == {12500}

InitSides == Constructed(SidesConfig, StartTime)

SidesBegin ==
    /\ bot.cycle_count < MaxCycles
    /\ \E can_trade \in CanTradeReplies, balance \in SidesBalances :
          CycleBegin(can_trade, balance)

SidesSymbol ==
    \E funding \in SidesFundingReplies, order \in OrderReplies :
        CycleSymbol(funding, TickerData(100), order, now)

SidesEnd == CycleEnd

SidesSleep == \E t \in BotClock : CycleSleep(t)

NextSides == SidesBegin \/ SidesSymbol \/ SidesEnd \/ SidesSleep

SpecSides == InitSides /\ [][NextSides]_vars

\* C31: a position the loop registers comes from an entry signal for its
\* symbol, short from open_short and long from open_long, with the rate of
\* the signal; every position of the ledger is short iff its entry rate is
\* above the entry threshold and long iff it is below minus the threshold,
\* the threshold being positive, and no entry rate is below the break-even
\* rate in magnitude.
C31_FundingSide ==
    /\ [][\A s \in DOMAIN positions' :
            (s \notin DOMAIN positions \/ positions'[s] # positions[s])
              => /\ last'.op = "_execute_cycle_multi"
                 /\ last'.symbol = s
                 /\ last'.signal.action =
                       (IF positions'[s].side = "short" THEN "open_short" ELSE "open_long")
                 /\ positions'[s].entry_rate = last'.signal.funding_rate]_vars
    /\ [](\A s \in DOMAIN positions :
            /\ positions[s].side \in {"short", "long"}
            /\ config.extreme_threshold > 0
            /\ positions[s].side = "short" <=> positions[s].entry_rate > config.extreme_threshold
            /\ positions[s].side = "long" <=> positions[s].entry_rate < -config.extreme_threshold
            /\ Abs(positions[s].entry_rate) >= break_even_rate)

\* the ledger holds a short position entered at the break-even rate and a
\* long one
C31_Witness ==
    \E s, u \in DOMAIN positions :
        /\ positions[s].side = "short" /\ positions[s].entry_rate = 250
        /\ positions[u].side = "long" /\ positions[u].entry_rate = -300

\* a rate above the entry threshold and below the break-even rate was seen
\* and the symbol was not entered
BelowBreakEvenSeen ==
    /\ last.op = "_execute_cycle_multi"
    /\ last.symbol \in DOMAIN history
    /\ history[last.symbol] = <<-200>>
    /\ last.symbol \notin DOMAIN positions

(***************************************************************************)
(* The trade log and the ledger.                                           *)
(***************************************************************************)
\* the symbols that have a row with status OPEN in the trade log
OpenRowSymbols ==
    {trades_file[i].symbol : i \in {j \in DOMAIN trades_file : trades_file[j].status = "OPEN"}}

\* C37: starting from an empty trade log, after every step of the loop the
\* symbols with an OPEN row are the symbols of the ledger and no symbol has
\* two OPEN rows; a step that closes rows (log_trade_exit) leaves no OPEN row
\* for its symbol, changes no row of another symbol and adds none.
C37_LogMirrorsLedger ==
    /\ [][(trades_file' # trades_file /\ Len(trades_file') = Len(trades_file))
            => /\ last'.op = "_execute_cycle_multi"
               /\ last'.signal.action = "close"
               /\ last'.symbol \notin {trades_file'[i].symbol :
                      i \in {j \in DOMAIN trades_file' : trades_file'[j].status = "OPEN"}}
               /\ \A i \in DOMAIN trades_file :
                      trades_file[i].symbol # last'.symbol
                        => trades_file'[i] = trades_file[i]]_vars
    /\ [](/\ OpenRowSymbols = DOMAIN positions
          /\ \A i, j \in DOMAIN trades_file :
                (/\ trades_file[i].status = "OPEN"
                 /\ trades_file[j].status = "OPEN"
                 /\ trades_file[i].symbol = trades_file[j].symbol) => i = j)

\* a close has just been logged for one symbol while another symbol, entered
\* before it, has its row open
C37_Witness ==
    /\ last.op = "_execute_cycle_multi"
    /\ last.signal.action = "close"
    /\ last.order = "filled"
    /\ \E i, j \in DOMAIN trades_file :
          /\ i < j
          /\ trades_file[i].status = "OPEN"
          /\ trades_file[j].status = "CLOSED"
          /\ trades_file[j].symbol = last.symbol
          /\ trades_file[i].symbol \in DOMAIN positions

(***************************************************************************)
(* The cycles recorded at a trade exit.  update reads the clock when it    *)
(* evaluates the exit, get_position_metrics reads it again when the close  *)
(* is executed: the loop wakes at 07:59 or 08:01 and the second reading of *)
(* a pass is at or after the first.                                        *)
(***************************************************************************)
MetricsStart == HM(7, 59)

MetricsClock == {HM(7, 59), HM(8, 1)}

MetricsFundingReplies == {FundingData(300, 100), FundingData(20, 100)}

InitMetrics == Constructed(SidesConfig, MetricsStart)

MetricsBegin ==
    /\ bot.cycle_count < MaxCycles
    /\ \E can_trade \in CanTradeReplies, balance \in SidesBalances :
          CycleBegin(can_trade, balance)

MetricsSymbol ==
    \E funding \in MetricsFundingReplies, order \in OrderReplies, t \in MetricsClock :
        CycleSymbol(funding, TickerData(100), order, t)

MetricsEnd == CycleEnd

MetricsSleep == \E t \in MetricsClock : CycleSleep(t)

NextMetrics == MetricsBegin \/ MetricsSymbol \/ MetricsEnd \/ MetricsSleep

SpecMetrics == InitMetrics /\ [][NextMetrics]_vars

\* the rows of the trade log closed by the step
RowsClosedByStep ==
    {i \in DOMAIN trades_file :
        trades_file[i].status = "OPEN" /\ trades_file'[i].status = "CLOSED"}

\* the cycles recorded by every executed close are those of the close signal
RecordedCyclesAreSignalCycles ==
    [][\A i \in RowsClosedByStep :
          trades_file'[i].cycles_captured = ToString(last'.signal.cycles_captured)]_vars

\* C32: the cycles recorded by an executed close are the funding instants
\* strictly between the entry time and the reading of the clock in
\* get_position_metrics; they are at least the cycles of the close signal,
\* and equal to them when no funding instant lies between update's reading
\* of the clock (included) and that of get_position_metrics (excluded).
C32_RecordedCycles ==
    [][\A i \in RowsClosedByStep :
          LET symbol == trades_file[i].symbol
              recorded == _count_funding_cycles(positions[symbol].entry_time,
                                                last'.executed_at)
          IN  /\ last'.op = "_execute_cycle_multi"
              /\ last'.symbol = symbol
              /\ last'.signal.action = "close"
              /\ trades_file'[i].cycles_captured = ToString(recorded)
              /\ recorded >= last'.signal.cycles_captured
              /\ _count_funding_cycles(last'.at - 1, last'.executed_at) = 0
                    => recorded = last'.signal.cycles_captured]_vars

\* a stop-loss close decided at 07:59 with no cycle captured is recorded at
\* 08:01 with one cycle
C32_Witness ==
    /\ last.op = "_execute_cycle_multi"
    /\ last.signal.action = "close"
    /\ last.order = "filled"
    /\ last.signal.cycles_captured = 0
    /\ last.at = HM(7, 59)
    /\ last.executed_at = HM(8, 1)
    /\ \E i \in DOMAIN trades_file :
          /\ trades_file[i].symbol = last.symbol
          /\ trades_file[i].status = "CLOSED"
          /\ trades_file[i].cycles_captured = "1"

\* a close decided and executed at 08:01 is recorded with the cycle of its
\* signal
SameReadingClose ==
    /\ last.op = "_execute_cycle_multi"
    /\ last.signal.action = "close"
    /\ last.order = "filled"
    /\ last.signal.cycles_captured = 1
    /\ last.at = last.executed_at
    /\ \E i \in DOMAIN trades_file :
          /\ trades_file[i].symbol = last.symbol
          /\ trades_file[i].cycles_captured = "1"

(***************************************************************************)
(* The capital of a tick.  25.02 USDT gives the size 100.08 and then, from *)
(* the 5.004 left, 20.02 (20.016 rounded to cents).                        *)
(***************************************************************************)
CapitalBalances == {2502, 12500}

InitCapital == Constructed(SidesConfig, StartTime)

CapitalBegin ==
    /\ bot.cycle_count < MaxCycles
    /\ \E can_trade \in CanTradeReplies, balance \in CapitalBalances :
          CycleBegin(can_trade, balance)

CapitalSymbol ==
    \E funding \in MetricsFundingReplies, order \in OrderReplies :
        CycleSymbol(funding, TickerData(100), order, now)

CapitalEnd == CycleEnd

CapitalSleep == \E t \in BotClock : CycleSleep(t)

NextCapital == CapitalBegin \/ CapitalSymbol \/ CapitalEnd \/ CapitalSleep

SpecCapital == InitCapital /\ [][NextCapital]_vars

\* the step is a pass of the loop whose entry order was taken
EntryExecuted ==
    /\ bot' # bot
    /\ last'.op = "_execute_cycle_multi"
    /\ last'.signal.action \in {"open_short", "open_long"}
    /\ last'.order = "filled"

\* the capital is never negative and every successful entry takes
\* size / leverage off it, which is at most 80% of the capital before
MarginWithinEightyPercent ==
    /\ [][EntryExecuted
            => /\ bot'.available_usdt = bot.available_usdt - last'.size_usd
               /\ 10 * last'.size_usd <= 8 * bot.available_usdt]_vars
    /\ [](bot.available_usdt >= 0)

\* C36: within a tick the capital is never negative; every successful entry
\* takes size / leverage off it, the size being at most 80% of the capital
\* before times the leverage, rounded to the cent (so at most half a cent
\* more), and at most the whole capital times the leverage.
C36_CapitalNeverNegative ==
    /\ [][EntryExecuted
            => /\ bot'.available_usdt = bot.available_usdt - last'.size_usd
               /\ 10 * last'.size_usd <= 8 * bot.available_usdt + 5
               /\ last'.size_usd <= bot.available_usdt]_vars
    /\ [](bot.available_usdt >= 0)

\* the second entry of a tick begun with 25.02 USDT: 20.02 from the 5.004
\* left, a margin of 4.004 against 80% = 4.0032
C36_Witness ==
    /\ last.op = "_execute_cycle_multi"
    /\ last.order = "filled"
    /\ last.available_before = 2502
    /\ last.size_usd = 2002
    /\ bot.available_usdt = 500
    /\ Cardinality(DOMAIN positions) = 2

(***************************************************************************)
(* Failing ticks and interrupts.  A reply with markPrice 0 makes           *)
(* size_usd / signal.mark_price raise ZeroDivisionError in the middle of a *)
(* tick; an interrupt can arrive whenever run is looping.                  *)
(***************************************************************************)
FaultFundingReplies ==
    {FundingData(300, 100), FundingData(300, 0), FundingData(20, 100), FundingData(20, 0)}

InitFault == Constructed(SidesConfig, StartTime)

FaultBegin ==
    /\ bot.cycle_count < MaxCycles
    /\ \E can_trade \in CanTradeReplies, balance \in SidesBalances :
          CycleBegin(can_trade, balance)

FaultSymbol ==
    \E funding \in FaultFundingReplies, order \in OrderReplies :
        CycleSymbol(funding, TickerData(100), order, now)

FaultEnd == CycleEnd

FaultSleep == \E t \in BotClock : CycleSleep(t)

FaultInterrupt == \E caught \in BOOLEAN : Interrupt(caught)

NextFault == FaultBegin \/ FaultSymbol \/ FaultEnd \/ FaultSleep \/ FaultInterrupt

SpecFault == InitFault /\ [][NextFault]_vars

\* C38: an exception raised while a tick is processed leaves the loop
\* running, with the positions and the trade log as the earlier passes of the
\* tick left them, and the next tick can begin; the loop ends only by an
\* interrupt, and once it has ended running is false.
C38_LoopSurvives ==
    /\ [][(last'.op = "_execute_cycle_multi" /\ bot' # bot /\ last'.raised # None)
            => /\ bot'.loop = "looping"
               /\ bot'.running
               /\ bot'.cursor = 0
               /\ positions' = positions
               /\ trades_file' = trades_file]_vars
    /\ [][bot'.loop \notin {"not started", "looping"}
            => (bot.loop = bot'.loop \/ last'.op = "interrupt")]_vars
    /\ [](bot.loop \notin {"not started", "looping"} => ~bot.running)

\* the part of C38 about failing ticks
FailingTickKeepsLoop ==
    [][(last'.op = "_execute_cycle_multi" /\ bot' # bot /\ last'.raised # None)
          => /\ bot'.loop = "looping"
             /\ bot'.running
             /\ bot'.cursor = 0
             /\ positions' = positions
             /\ trades_file' = trades_file]_vars

\* a tick failed at its second symbol after its first symbol was entered,
\* and the position is still there
FailedTickReached ==
    /\ last.op = "_execute_cycle_multi"
    /\ last.raised = "ZeroDivisionError"
    /\ last.symbol = "S2"
    /\ bot.loop = "looping"
    /\ "S1" \in DOMAIN positions
    /\ positions["S1"].entry_time = now

\* a later tick has begun after a failed one
TickAfterFailureReached ==
    /\ last.op = "run"
    /\ last.cycle_count = 2
    /\ "S1" \in DOMAIN positions
    /\ "S2" \in DOMAIN history
    /\ "S2" \notin DOMAIN positions
    /\ bot.cursor = 1

\* the loop was ended by an interrupt and running is still true
InterruptLeftRunning ==
    /\ last.op = "interrupt"
    /\ bot.loop = "cancelled"
    /\ bot.running

(***************************************************************************)
(* Liveness of the exit.  One pair; trading always allowed, both replies   *)
(* present, every order taken.  The rate is 0.0003 until the pair has been *)
(* entered and observed for up to six ticks, and from its first low value  *)
(* on it stays below the exit threshold, alternating between 0.00001 and   *)
(* -0.00001.  The loop wakes at 06:25 and at 08:05.  The loop is one       *)
(* coroutine that goes on after every await, hence the weak fairness of    *)
(* its three steps.                                                        *)
(***************************************************************************)
LiveConfig == [DefaultConfig EXCEPT !.symbols = {"S1"}, !.max_positions = 2]

LiveWindow == IF "S1" \in DOMAIN history THEN history["S1"] ELSE <<>>

\* the rates the exchange can report next, given those reported so far
LiveRates ==
    IF LiveWindow = <<>> THEN {300}
    ELSE LET previous == LiveWindow[Len(LiveWindow)]
         IN  IF previous = 300
             THEN (IF Len(LiveWindow) < 6 THEN {300, 10} ELSE {10})
             ELSE {-previous}

InitLive == Constructed(LiveConfig, StartTime)

LiveBegin == CycleBegin(TRUE, 12500)

LiveSymbol ==
    \E rate \in LiveRates :
        CycleSymbol(FundingData(rate, 100), TickerData(100), "filled", now)

LiveEnd == CycleEnd

LiveSleep == \E t \in BotClock : CycleSleep(t)

NextLive == LiveBegin \/ LiveSymbol \/ LiveEnd \/ LiveSleep

SpecLive ==
    /\ InitLive
    /\ [][NextLive]_vars
    /\ WF_vars(LiveBegin)
    /\ WF_vars(LiveSymbol)
    /\ WF_vars(LiveEnd)

\* the pair is held, has captured a cycle, and its rate is below the exit
\* threshold
LowRateHeld ==
    /\ "S1" \in DOMAIN positions
    /\ _count_funding_cycles(positions["S1"].entry_time, now) >= 1
    /\ LiveWindow # <<>>
    /\ Abs(LiveWindow[Len(LiveWindow)]) < config.min_threshold

\* C33: a held position that has captured a cycle and whose rate is, from
\* then on, below the exit threshold at every tick is eventually removed from
\* the ledger, ticks going on with trading allowed, data present and orders
\* taken.
C33_ExitLiveness == LowRateHeld ~> ("S1" \notin DOMAIN positions)

\* the position is held with a cycle captured while the window holds twenty
\* low rates: none of the high rates of the entry is left
LowWindowStillHeld ==
    /\ LowRateHeld
    /\ Len(LiveWindow) = max_history
    /\ \A i \in DOMAIN LiveWindow : Abs(LiveWindow[i]) < config.min_threshold

\* a low rate seen through a window of at most five samples closes the
\* position
ShortWindowClosed ==
    /\ last.op = "_execute_cycle_multi"
    /\ last.signal.action = "close"
    /\ last.signal.cycles_captured >= 1
    /\ "S1" \notin DOMAIN positions

====
